---- MODULE Spec2Model ----
(***************************************************************************)
(* Progress synchronisation of The Story Trail Kokkola.                    *)
(*                                                                         *)
(* Server side: the Motoko actor (userProgress map, storyLocations map,    *)
(* access control).  Client side: the localStorage backup cache, the       *)
(* react-query cache of ['userProgress'], the progress query               *)
(* (useGetUserProgress with syncUnsyncedProgress) and the Done handler     *)
(* (handleComplete -> retryWithBackoff -> useUpdateUserProgress).          *)
(***************************************************************************)
EXTENDS Integers, Sequences, FiniteSets, TLC

(***************************************************************************)
(* Bounds and program constants                                            *)
(***************************************************************************)

\* location_0 .. location_<MaxLocationId> are the ids a caller may pass to
\* the server; only location_1 and location_2 are ever initialised.
MaxLocationId == 4

\* ensureProgressInitialized: totalLocations = 3
InitialTotalLocations == 3

\* presses of Done in one run
MaxPresses == 2

\* refetches of the progress query started by a mount, a view change or a
\* timer in one run (those started by invalidateQueries are not counted)
MaxFetches == 1

\* principals known to the canister
Users == {"A", "B"}

LocationIds == 0 .. MaxLocationId

Stages == 0 .. 4

\* the location ids the scanner hands to the quest popup:
\* LOCATION_1_QR_ID and LOCATION_2_QR_ID
ScannedLocationIds == {1, 2}

VARIABLES
    userProgress,     \* Map<Principal, UserProgress> of the actor
    storyLocations,   \* Map<Text, StoryLocation>: location id -> sequenceNumber
    userRoles,        \* principals for which hasPermission(.., #user) holds
    lastOp,           \* the last call made to the canister directly, and its response
    identity,         \* the principal the client's actor calls as
    localStorage,     \* the browser's localStorage (key 'userProgress')
    queryData,        \* react-query data of ['userProgress'] (<<>> = undefined)
    q,                \* the running queryFn of useGetUserProgress
    h,                \* the running handleComplete of the quest popup
    hist              \* history: the completions that ended queued, counters,
                      \* the state a first run of the fetch left, logouts,
                      \* the handleComplete that is not the one in h

serverVars == <<userProgress, storyLocations, userRoles>>

clientVars == <<identity, localStorage, queryData, q, h, hist>>

vars == <<userProgress, storyLocations, userRoles, lastOp,
          identity, localStorage, queryData, q, h, hist>>

(***************************************************************************)
(* Server: types and helpers (backend/main.mo)                             *)
(***************************************************************************)

EmptyMap == [k \in {} |-> 0]

MapPut(m, k, v) == [x \in (DOMAIN m) \cup {k} |-> IF x = k THEN v ELSE m[x]]

MainProgress(s1, s2, s3) == [stage1 |-> s1, stage2 |-> s2, stage3 |-> s3]

\* the record built by ensureProgressInitialized for a first-time caller
initialProgress ==
    [lastCompletedLocation |-> 0,
     completedLocations    |-> <<>>,
     currentSequences      |-> <<>>,
     totalLocations        |-> InitialTotalLocations,
     mainProgress          |-> MainProgress(FALSE, FALSE, FALSE)]

\* variant: every caller is taken to hold the #user permission
hasPermissionAlways(roles, caller) == TRUE

hasPermission(roles, caller) == caller \in roles

\* variant: the stored record is not looked up, every caller starts afresh
ensureProgressReset(store, roles, user) ==
    [progress |-> initialProgress, store |-> MapPut(store, user, initialProgress)]

\* ensureProgressInitialized: the record returned and the map afterwards
ensureProgressInitialized(store, roles, user) ==
    IF user \in DOMAIN store
    THEN [progress |-> store[user], store |-> store]
    ELSE [progress |-> initialProgress,
          store    |-> IF hasPermission(roles, user)
                       THEN MapPut(store, user, initialProgress)
                       ELSE store]

\* variant: no location is ever recognised as completed
isLocationCompletedNever(completedLocations, sequenceNumber) == FALSE

isLocationCompleted(completedLocations, sequenceNumber) ==
    \E i \in 1 .. Len(completedLocations) : completedLocations[i] = sequenceNumber

\* A response of the canister: err = "" on success; a trap discards every
\* state change of the call, so store is the map before the call.
Ok(result, store) == [err |-> "", result |-> result, store |-> store, dup |-> FALSE]

\* the early return of updateProgress for a location already completed
Unchanged(result, store) == [err |-> "", result |-> result, store |-> store, dup |-> TRUE]

Trap(msg, store) == [err |-> msg, result |-> initialProgress, store |-> store, dup |-> FALSE]

\* updateProgress(locationId, workingSequences) called by caller
updateProgress(store, locs, roles, caller, locationId, workingSequences) ==
    IF ~hasPermission(roles, caller)
    THEN Trap("Unauthorized", store)
    ELSE IF locationId \notin DOMAIN locs
    THEN Trap("Invalid location ID: Location not found", store)
    ELSE
      LET sequenceNumber == locs[locationId]
          init == ensureProgressInitialized(store, roles, caller)
          currentProgress == init.progress
          completedLocations == currentProgress.completedLocations
      IN  IF isLocationCompleted(completedLocations, sequenceNumber)
          THEN Unchanged(currentProgress, init.store)
          ELSE IF sequenceNumber < 1 \/ sequenceNumber > currentProgress.totalLocations
          THEN Trap("Invalid sequence number: Out of range", store)
          ELSE
            LET newCompletedLocations == Append(completedLocations, sequenceNumber)
                completedCount == Len(newCompletedLocations)
                newProgress ==
                    [lastCompletedLocation |-> sequenceNumber,
                     completedLocations    |-> newCompletedLocations,
                     currentSequences      |-> workingSequences,
                     totalLocations        |-> currentProgress.totalLocations,
                     mainProgress          |-> MainProgress(completedCount >= 1,
                                                            completedCount >= 2,
                                                            completedCount >= 3)]
            IN  Ok(newProgress, MapPut(init.store, caller, newProgress))

\* updateMainProgress(stage) called by caller; it returns ()
updateMainProgress(store, roles, caller, stage) ==
    IF ~hasPermission(roles, caller)
    THEN Trap("Unauthorized", store)
    ELSE IF stage < 1 \/ stage > 3
    THEN Trap("Invalid stage: Must be between 1 and 3", store)
    ELSE
      LET init == ensureProgressInitialized(store, roles, caller)
          currentProgress == init.progress
          mp == currentProgress.mainProgress
          updatedMainProgress ==
              CASE stage = 1 -> MainProgress(TRUE, mp.stage2, mp.stage3)
                [] stage = 2 -> MainProgress(mp.stage1, TRUE, mp.stage3)
                [] stage = 3 -> MainProgress(mp.stage1, mp.stage2, TRUE)
                [] OTHER     -> mp
          updatedProgress == [currentProgress EXCEPT !.mainProgress = updatedMainProgress]
      IN  Ok(updatedProgress, MapPut(init.store, caller, updatedProgress))

\* getUserProgress() is a query method: it answers with the record that
\* ensureProgressInitialized returns, and a query call commits no state.
getUserProgress(store, roles, caller) ==
    IF ~hasPermission(roles, caller)
    THEN Trap("Unauthorized", store)
    ELSE Ok(ensureProgressInitialized(store, roles, caller).progress, store)

\* initializeLocations adds location_1 (sequence 1) and location_2 (sequence 2)
initializeLocations(locs) == MapPut(MapPut(locs, 1, 1), 2, 2)

Op(name, caller, arg, resp) ==
    [op |-> name, caller |-> caller, arg |-> arg, err |-> resp.err,
     result |-> resp.result, dup |-> resp.dup]

(***************************************************************************)
(* Client: localStorage backup cache (hooks/useQueries.ts)                 *)
(***************************************************************************)

Some(x) == <<x>>

None == <<>>

Digits == <<"0", "1", "2", "3", "4", "5", "6", "7", "8", "9">>

\* n.toString() of a bigint: its decimal digits, most significant first
\* (a string is modelled as the sequence of its characters)
RECURSIVE toString(_)
toString(n) ==
    IF n < 10
    THEN <<Digits[n + 1]>>
    ELSE Append(toString(n \div 10), Digits[(n % 10) + 1])

DigitValue(c) == CHOOSE d \in 0 .. 9 : Digits[d + 1] = c

\* BigInt(s) of a decimal string
RECURSIVE BigInt(_)
BigInt(s) ==
    IF Len(s) = 0
    THEN 0
    ELSE BigInt(SubSeq(s, 1, Len(s) - 1)) * 10 + DigitValue(s[Len(s)])

\* variant: the text "0" counts as falsy, as the number 0 does
falsyZero(value) == value = <<>> \/ value = <<"0">>

\* the left operand of "value || default" for a string: only the empty
\* string is falsy
falsy(value) == value = <<>>

\* BigInt(value || default)
BigIntOr(value, default) == IF falsy(value) THEN default ELSE BigInt(value)

\* completedLocations.map(n => n.toString())
mapToString(seq) == [i \in 1 .. Len(seq) |-> toString(seq[i])]

\* parsed.completedLocations.map((n: string) => BigInt(n))
mapBigInt(seq) == [i \in 1 .. Len(seq) |-> BigInt(seq[i])]

\* variant: nothing is written
saveNothing(ls, progress) == ls

\* saveProgressToLocalStorage: the whole entry is overwritten and synced is
\* always written as true (the timestamp field is left out of the model)
saveProgressToLocalStorage(ls, progress) ==
    MapPut(ls, "userProgress",
           [lastCompletedLocation |-> toString(progress.lastCompletedLocation),
            totalLocations        |-> toString(progress.totalLocations),
            completedLocations    |-> mapToString(progress.completedLocations),
            mainProgress          |-> progress.mainProgress,
            currentSequences      |-> mapToString(progress.currentSequences),
            synced                |-> TRUE])

\* loadProgressFromLocalStorage: None when there is no entry
loadProgressFromLocalStorage(ls) ==
    IF "userProgress" \notin DOMAIN ls
    THEN None
    ELSE LET parsed == ls["userProgress"]
         IN  Some([lastCompletedLocation |-> BigIntOr(parsed.lastCompletedLocation, 0),
                   totalLocations        |-> BigIntOr(parsed.totalLocations, 3),
                   completedLocations    |-> mapBigInt(parsed.completedLocations),
                   mainProgress          |-> parsed.mainProgress,
                   currentSequences      |-> mapBigInt(parsed.currentSequences)])

SetSynced(ls, flag) ==
    IF "userProgress" \in DOMAIN ls
    THEN [ls EXCEPT !["userProgress"].synced = flag]
    ELSE ls

markProgressAsUnsynced(ls) == SetSynced(ls, FALSE)

\* syncUnsyncedProgress, "Mark as synced": the entry that is in
\* localStorage at that moment gets synced = true
markSynced(ls) == SetSynced(ls, TRUE)

\* variant: every entry counts as unsynced
hasUnsyncedAlways(ls) == "userProgress" \in DOMAIN ls

hasUnsyncedProgress(ls) ==
    "userProgress" \in DOMAIN ls /\ ls["userProgress"].synced = FALSE

\* the default structure used when neither backend nor cache has progress
defaultProgress ==
    [lastCompletedLocation |-> 0,
     completedLocations    |-> <<>>,
     currentSequences      |-> <<>>,
     totalLocations        |-> 3,
     mainProgress          |-> MainProgress(FALSE, FALSE, FALSE)]

\* locationId === 'location_1' ? 1 : locationId === 'location_2' ? 2 : 3
locationNumber(locationId) ==
    IF locationId = 1 THEN 1 ELSE IF locationId = 2 THEN 2 ELSE 3

includes(seq, x) == \E i \in 1 .. Len(seq) : seq[i] = x

\* progress with location n appended and the stage flags recomputed
\* (onMutate's optimisticProgress)
optimisticProgress(previousProgress, n) ==
    LET newCompletedLocations == Append(previousProgress.completedLocations, n)
        completedCount == Len(newCompletedLocations)
    IN  [previousProgress EXCEPT
            !.lastCompletedLocation = n,
            !.completedLocations = newCompletedLocations,
            !.mainProgress = MainProgress(completedCount >= 1,
                                          completedCount >= 2,
                                          completedCount >= 3)]

\* mutationFn, network error branch: the location is added to the cached
\* progress (or to the default structure) and the entry is marked unsynced
saveOffline(ls, locationId, sequences) ==
    LET cached == loadProgressFromLocalStorage(ls)
        currentProgress == IF cached = None THEN defaultProgress ELSE cached[1]
        n == locationNumber(locationId)
    IN  IF includes(currentProgress.completedLocations, n)
        THEN ls
        ELSE LET newCompletedLocations == Append(currentProgress.completedLocations, n)
                 completedCount == Len(newCompletedLocations)
                 updatedProgress ==
                     [lastCompletedLocation |-> n,
                      totalLocations        |-> 3,
                      completedLocations    |-> newCompletedLocations,
                      mainProgress          |-> MainProgress(completedCount >= 1,
                                                             completedCount >= 2,
                                                             completedCount >= 3),
                      currentSequences      |-> sequences]
             IN  markProgressAsUnsynced(saveProgressToLocalStorage(ls, updatedProgress))

\* variant: every location the record read lacks is replayed, cached or not
newLocationsMissing(cachedProgress, backendProgress) ==
    SelectSeq(<<1, 2>>, LAMBDA loc : ~includes(backendProgress.completedLocations, loc))

\* variant: nothing is found to replay
newLocationsNone(cachedProgress, backendProgress) == <<>>

\* syncUnsyncedProgress: the cached locations the backend record lacks
newLocations(cachedProgress, backendProgress) ==
    SelectSeq(cachedProgress.completedLocations,
              LAMBDA loc : ~includes(backendProgress.completedLocations, loc))

(***************************************************************************)
(* Client: calls of the actor.  A call is sent; the canister may process   *)
(* it; the awaiting code continues with the response of a processed call,  *)
(* or with a network error (the request or the response was lost).         *)
(***************************************************************************)

NoCall == [state |-> "none", op |-> "", arg |-> 0, err |-> "", result |-> initialProgress]

Sent(op, arg) == [state |-> "sent", op |-> op, arg |-> arg, err |-> "", result |-> initialProgress]

\* the canister's answer to a call of the client
Process(call, caller) ==
    IF call.op = "updateProgress"
    THEN updateProgress(userProgress, storyLocations, userRoles, caller, call.arg, <<>>)
    ELSE getUserProgress(userProgress, userRoles, caller)

NetworkError == "Failed to fetch"

\* what the await of a call can yield; "thrown" stands for an error thrown
\* inside the try block of mutationFn after the call had been answered
Responses(call) ==
    IF call.state = "sent"
    THEN {[err |-> NetworkError, result |-> initialProgress]}
    ELSE IF call.state = "processed"
    THEN {[err |-> NetworkError, result |-> initialProgress],
          [err |-> call.err, result |-> call.result]}
    ELSE IF call.state = "thrown"
    THEN {[err |-> call.err, result |-> call.result]}
    ELSE {}

\* errorMsg.includes('network') || 'timeout' || 'fetch' || 'Failed to fetch'
isNetworkError(errorMsg) == errorMsg = NetworkError

\* the error mutationFn throws for a failure of actor.updateProgress
thrownError(errorMsg) ==
    IF isNetworkError(errorMsg)
    THEN "Network error. Progress saved locally and will sync when connection is restored."
    ELSE IF errorMsg = "Invalid location ID: Location not found"
    THEN "Location not found. The story locations may not be initialized yet."
    ELSE IF errorMsg = "Unauthorized"
    THEN "Authentication required. Please log in again."
    ELSE "Failed to update progress"

NetworkErrorThrown ==
    "Network error. Progress saved locally and will sync when connection is restored."

TerminalErrorsThrown ==
    {"Location not found. The story locations may not be initialized yet.",
     "Authentication required. Please log in again."}

(***************************************************************************)
(* Initial state                                                           *)
(***************************************************************************)

QIdle ==
    [pc |-> "idle", cachedProgress |-> None, newLocs |-> <<>>, cancelled |-> FALSE,
     again |-> "no", call |-> NoCall, sync |-> "none", track |-> 0]

HIdle ==
    [pc |-> "idle", locationId |-> 0, attempt |-> 0, failureCount |-> 0, vattempt |-> 0,
     previousProgress |-> None, call |-> NoCall, writes |-> 0, error |-> "",
     allNet |-> TRUE, allTerm |-> TRUE, hadBefore |-> FALSE, marked |-> FALSE,
     outcome |-> "none"]

ClientInit ==
    /\ identity = "A"
    /\ localStorage = EmptyMap
    /\ queryData = None
    /\ q = QIdle
    /\ h = HIdle
    /\ hist = [queued |-> {}, phase |-> "none", loc |-> 0, presses |-> 0, fetches |-> 0,
               reads |-> 0, once |-> None, logouts |-> 0,
               parked |-> None]

\* the canister after installation, and a client that has just signed in
ServerInit ==
    /\ userProgress = EmptyMap
    /\ storyLocations = EmptyMap
    /\ userRoles = {}
    /\ lastOp = Op("init", "A", 0, Ok(initialProgress, EmptyMap))
    /\ ClientInit

\* a client that has just signed in, with a canister on which its
\* principal has or has not got the user permission and the admin has or
\* has not run initializeLocations; no progress has been stored yet
Init ==
    /\ userProgress = EmptyMap
    /\ storyLocations \in {EmptyMap, initializeLocations(EmptyMap)}
    /\ userRoles \in SUBSET {"A"}
    /\ lastOp = Op("init", "A", 0, Ok(initialProgress, EmptyMap))
    /\ ClientInit

(***************************************************************************)
(* Server actions, one per canister call                                   *)
(***************************************************************************)

\* assignCallerUserRole / initializeAccessControl: a principal gains or
\* loses the #user permission
AssignCallerUserRole(u) ==
    \E grant \in BOOLEAN :
        /\ userRoles' = IF grant THEN userRoles \cup {u} ELSE userRoles \ {u}
        /\ userRoles' # userRoles
        /\ lastOp' = Op("assignCallerUserRole", u, 0, Ok(initialProgress, userProgress))
        /\ UNCHANGED <<userProgress, storyLocations>>
        /\ UNCHANGED <<identity, localStorage, queryData, q, h>>

InitializeLocations ==
    /\ storyLocations' = initializeLocations(storyLocations)
    /\ storyLocations' # storyLocations
    /\ lastOp' = Op("initializeLocations", "A", 0, Ok(initialProgress, userProgress))
    /\ UNCHANGED <<userProgress, userRoles>>
    /\ UNCHANGED clientVars

CallUpdateProgress ==
    \E caller \in Users, locationId \in LocationIds :
        LET resp == updateProgress(userProgress, storyLocations, userRoles,
                                   caller, locationId, <<>>)
        IN  /\ userProgress' = resp.store
            /\ lastOp' = Op("updateProgress", caller, locationId, resp)
            /\ UNCHANGED <<storyLocations, userRoles>>
            /\ UNCHANGED clientVars

CallUpdateMainProgress ==
    \E caller \in Users, stage \in Stages :
        LET resp == updateMainProgress(userProgress, userRoles, caller, stage)
        IN  /\ userProgress' = resp.store
            /\ lastOp' = Op("updateMainProgress", caller, stage, resp)
            /\ UNCHANGED <<storyLocations, userRoles>>
            /\ UNCHANGED clientVars

CallGetUserProgress ==
    \E caller \in Users :
        LET resp == getUserProgress(userProgress, userRoles, caller)
        IN  /\ userProgress' = resp.store
            /\ lastOp' = Op("getUserProgress", caller, 0, resp)
            /\ UNCHANGED <<storyLocations, userRoles>>
            /\ UNCHANGED clientVars

ServerNext ==
    \/ \E u \in Users : AssignCallerUserRole(u) /\ UNCHANGED hist
    \/ InitializeLocations
    \/ CallUpdateProgress
    \/ CallUpdateMainProgress
    \/ CallGetUserProgress

SpecServer == ServerInit /\ [][ServerNext]_vars

(***************************************************************************)
(* Client: the progress query, useGetUserProgress.queryFn with             *)
(* syncUnsyncedProgress.  q.sync is what syncUnsyncedProgress returned in  *)
(* this run: "noop" (true, nothing unsynced), "true", "false", or          *)
(* "running".  q.track is the location of a completion that ended queued   *)
(* before this run began, when this run is the first one after it.         *)
(***************************************************************************)

\* queryFn starts: hasUnsyncedProgress, loadProgressFromLocalStorage and the
\* first getUserProgress call
fetchStart(ls, hs) ==
    LET t == IF hs.phase = "queued" THEN hs.loc ELSE 0
    IN  IF hasUnsyncedProgress(ls)
        THEN [QIdle EXCEPT !.pc = "syncRead",
                           !.cachedProgress = loadProgressFromLocalStorage(ls),
                           !.call = Sent("getUserProgress", 0),
                           !.sync = "running", !.track = t]
        ELSE [QIdle EXCEPT !.pc = "read",
                           !.call = Sent("getUserProgress", 0),
                           !.sync = "noop", !.track = t]

\* queryClient.invalidateQueries / refetchQueries: a fetch starts; a fetch
\* in flight is cancelled (its queryFn runs on, its result is dropped) and
\* the new one is run after it
invalidateQueries(qr, ls, hs) ==
    IF qr.pc = "idle"
    THEN fetchStart(ls, hs)
    ELSE [qr EXCEPT !.cancelled = TRUE, !.again = "live"]

\* queryClient.cancelQueries: the fetch in flight and the one waiting to
\* run after it are cancelled (their queryFn runs, their result is dropped)
cancelQueries(qr) ==
    IF qr.pc = "idle"
    THEN qr
    ELSE [qr EXCEPT !.cancelled = TRUE,
                    !.again = IF @ = "no" THEN "no" ELSE "dropped"]

\* the fetch that was waiting starts when the one in flight has ended
fetchAgain(qr, ls, hs) ==
    IF qr.again = "no"
    THEN QIdle
    ELSE [fetchStart(ls, hs) EXCEPT !.cancelled = (qr.again = "dropped")]

\* the completion that ended queued has got its first reconcile
taken(hs, qr) ==
    IF qr.pc # "idle" /\ qr.track # 0 /\ hs.phase = "queued"
    THEN [hs EXCEPT !.phase = "taken"]
    ELSE hs

StartFetch ==
    /\ q.pc = "idle"
    /\ hist.fetches < MaxFetches
    /\ q' = fetchStart(localStorage, hist)
    /\ hist' = [taken(hist, q') EXCEPT !.fetches = @ + 1]
    /\ UNCHANGED <<serverVars, lastOp, identity, localStorage, queryData, h>>

\* the canister processes the call of the query, made by caller
ProcessQ(caller) ==
    /\ q.call.state = "sent"
    /\ LET resp == Process(q.call, caller)
       IN  /\ userProgress' = resp.store
           /\ q' = [q EXCEPT !.call.state = "processed",
                             !.call.err = resp.err,
                             !.call.result = resp.result]
    /\ UNCHANGED <<storyLocations, userRoles, lastOp, identity,
                   localStorage, queryData, h, hist>>

ServerProcessQ == ProcessQ(identity)

\* syncUnsyncedProgress after "const backendProgress = await actor.getUserProgress()"
QSyncRead ==
    /\ q.pc = "syncRead"
    /\ \E resp \in Responses(q.call) :
       LET nl == newLocations(q.cachedProgress[1], resp.result)
       IN  IF resp.err # ""
           THEN /\ q' = [q EXCEPT !.pc = "read", !.sync = "false",
                                  !.call = Sent("getUserProgress", 0)]
                /\ UNCHANGED localStorage
           ELSE IF nl = <<>>
           THEN /\ localStorage' = markSynced(localStorage)
                /\ q' = [q EXCEPT !.pc = "read", !.sync = "true",
                                  !.call = Sent("getUserProgress", 0)]
           ELSE /\ q' = [q EXCEPT !.pc = "syncWrite", !.newLocs = nl,
                                  !.call = Sent("updateProgress", nl[1])]
                /\ UNCHANGED localStorage
    /\ UNCHANGED <<serverVars, lastOp, identity, queryData, h, hist>>

\* syncUnsyncedProgress after "await actor.updateProgress(locationId, ..)";
\* when the write throws, q.newLocs keeps the locations not replayed, the
\* one whose write threw first
QSyncWrite ==
    /\ q.pc = "syncWrite"
    /\ \E resp \in Responses(q.call) :
       LET rest == Tail(q.newLocs)
       IN  IF resp.err # ""
           THEN /\ q' = [q EXCEPT !.pc = "read", !.sync = "false",
                                  !.call = Sent("getUserProgress", 0)]
                /\ UNCHANGED localStorage
           ELSE IF rest = <<>>
           THEN /\ localStorage' = markSynced(localStorage)
                /\ q' = [q EXCEPT !.pc = "read", !.sync = "true", !.newLocs = <<>>,
                                  !.call = Sent("getUserProgress", 0)]
           ELSE /\ q' = [q EXCEPT !.newLocs = rest,
                                  !.call = Sent("updateProgress", rest[1])]
                /\ UNCHANGED localStorage
    /\ UNCHANGED <<serverVars, lastOp, identity, queryData, h, hist>>

\* variant: the catch branch returns the cache without touching its flag
queryFnKeepsFlag(ls, resp) ==
    LET cached == loadProgressFromLocalStorage(ls)
    IN  IF resp.err = ""
        THEN [data |-> resp.result, ls |-> saveProgressToLocalStorage(ls, resp.result)]
        ELSE [data |-> IF cached # None THEN cached[1] ELSE defaultProgress, ls |-> ls]

\* queryFn of useGetUserProgress from "const backendProgress = await
\* actor.getUserProgress()" on: what it returns and what it leaves in
\* localStorage.  The try branch caches the record and returns it, the
\* catch branch returns the cache (marked unsynced) or the default structure
queryFn(ls, resp) ==
    LET cachedProgress == loadProgressFromLocalStorage(ls)
    IN  IF resp.err = ""
        THEN [data |-> resp.result, ls |-> saveProgressToLocalStorage(ls, resp.result)]
        ELSE IF cachedProgress # None
        THEN [data |-> cachedProgress[1], ls |-> markProgressAsUnsynced(ls)]
        ELSE [data |-> defaultProgress, ls |-> ls]

\* the await of the read ends: queryFn returns, react-query stores the
\* data unless the fetch was cancelled
QRead ==
    /\ q.pc = "read"
    /\ \E resp \in Responses(q.call) :
       LET r == queryFn(localStorage, resp)
       IN  /\ localStorage' = r.ls
           /\ queryData' = IF q.cancelled THEN queryData ELSE Some(r.data)
           /\ q' = fetchAgain(q, localStorage', hist)
           /\ hist' = taken(hist, q')
    /\ UNCHANGED <<serverVars, lastOp, identity, h>>

(***************************************************************************)
(* Client: the Done handler.  handleComplete runs retryWithBackoff         *)
(* (maxRetries = 2) over mutateAsync; each mutateAsync runs onMutate and   *)
(* then mutationFn, which react-query re-runs on failure (retry: 3).       *)
(* h.writes counts the actor.updateProgress calls of this press of Done,   *)
(* h.error is what the last run of mutationFn threw, h.allNet and          *)
(* h.allTerm tell whether every failure so far was a network error or a    *)
(* server error, h.hadBefore whether the location was in the in-memory or  *)
(* the durable cache when Done was pressed, h.marked whether a run of      *)
(* mutationFn of this press has written the durable entry (offline save).  *)
(***************************************************************************)

\* useUpdateUserProgress: retry: 3
MutationRetry == 3

\* handleComplete: retryWithBackoff(.., 2, ..)
MaxRetries == 2

CachedLocations(ls) ==
    IF "userProgress" \in DOMAIN ls
    THEN mapBigInt(ls["userProgress"].completedLocations)
    ELSE <<>>

InMemoryLocations(qd) == IF qd = None THEN <<>> ELSE qd[1].completedLocations

\* mutateAsync: onMutate (cancelQueries, snapshot, optimistic update), then
\* mutationFn calls actor.updateProgress
BeginMutation(loc, attempt, writes, error, allNet, allTerm, hadBefore, marked) ==
    /\ q' = cancelQueries(q)
    /\ queryData' =
          IF queryData # None
             /\ ~includes(queryData[1].completedLocations, locationNumber(loc))
          THEN Some(optimisticProgress(queryData[1], locationNumber(loc)))
          ELSE queryData
    /\ h' = [pc |-> "write", locationId |-> loc, attempt |-> attempt,
             failureCount |-> 0, vattempt |-> 0, previousProgress |-> queryData,
             call |-> Sent("updateProgress", loc), writes |-> writes + 1,
             error |-> error, allNet |-> allNet, allTerm |-> allTerm,
             hadBefore |-> hadBefore, marked |-> marked, outcome |-> "pending"]
    /\ UNCHANGED <<serverVars, lastOp, identity, localStorage>>

\* handleComplete with locationId loc
Press(loc) ==
    /\ h.pc = "idle"
    /\ BeginMutation(loc, 0, 0, "", TRUE, TRUE,
                     includes(InMemoryLocations(queryData), locationNumber(loc))
                     \/ includes(CachedLocations(localStorage), locationNumber(loc)),
                     FALSE)
    /\ hist' = [hist EXCEPT !.phase = "none", !.loc = 0, !.presses = @ + 1,
                             !.reads = 0]

\* the user presses Done at one of the locations the scanner knows
PressDone ==
    /\ hist.presses < MaxPresses
    /\ \E loc \in ScannedLocationIds : Press(loc)

\* retryWithBackoff: the delay is over, operation() is called again
RetryAfterBackoff ==
    /\ h.pc = "backoff"
    /\ BeginMutation(h.locationId, h.attempt, h.writes, h.error, h.allNet,
                     h.allTerm, h.hadBefore, h.marked)
    /\ UNCHANGED hist

\* the canister processes the write of the mutation
ServerProcessH ==
    /\ h.call.state = "sent"
    /\ LET resp == Process(h.call, identity)
       IN  /\ userProgress' = resp.store
           /\ h' = [h EXCEPT !.call.state = "processed",
                             !.call.err = resp.err,
                             !.call.result = resp.result]
    /\ UNCHANGED <<storyLocations, userRoles, lastOp, identity,
                   localStorage, queryData, q, hist>>

\* mutationFn resolves: the record returned holds the location, it is
\* cached; onSuccess sets the query data and invalidates the query
HWriteOk ==
    /\ h.pc = "write"
    /\ \E resp \in Responses(h.call) :
        /\ resp.err = ""
        /\ includes(resp.result.completedLocations, locationNumber(h.locationId))
        /\ localStorage' = saveProgressToLocalStorage(localStorage, resp.result)
        /\ queryData' = Some(resp.result)
    /\ q' = invalidateQueries(q, localStorage', hist)
    /\ hist' = taken(hist, q')
    /\ h' = [h EXCEPT !.pc = "awaitRefetch", !.call.state = "done"]
    /\ UNCHANGED <<serverVars, lastOp, identity>>

\* handleComplete after a successful retryWithBackoff (the refetch that
\* onSuccess awaits is over): setQueryData, invalidateQueries, onClose
HConfirm ==
    /\ h.pc = "awaitRefetch"
    /\ q.pc = "idle"
    /\ queryData' = Some(h.call.result)
    /\ q' = fetchStart(localStorage, hist)
    /\ hist' = taken(hist, q')
    /\ h' = [HIdle EXCEPT !.locationId = h.locationId, !.outcome = "confirmed"]
    /\ UNCHANGED <<serverVars, lastOp, identity, localStorage>>

\* the catch block of mutationFn: what localStorage is afterwards
afterWriteError(ls, errorMsg, locationId) ==
    IF isNetworkError(errorMsg) THEN saveOffline(ls, locationId, <<>>) ELSE ls

\* mutationFn throws and react-query runs it again (failureCount < retry)
HWriteRetry ==
    /\ h.pc = "write"
    /\ h.failureCount < MutationRetry
    /\ \E resp \in Responses(h.call) :
        /\ resp.err # ""
        /\ localStorage' = afterWriteError(localStorage, resp.err, h.locationId)
        /\ h' = [h EXCEPT !.failureCount = @ + 1,
                          !.call = Sent("updateProgress", h.locationId),
                          !.writes = @ + 1,
                          !.error = thrownError(resp.err),
                          !.allNet = @ /\ isNetworkError(resp.err),
                          !.allTerm = @ /\ ~isNetworkError(resp.err),
                          !.marked = @ \/ localStorage' # localStorage]
    /\ UNCHANGED <<serverVars, lastOp, identity, queryData, q, hist>>

\* onError: roll back to the snapshot unless the error is the network error
rollback(qd, previousProgress, error) ==
    IF error # NetworkErrorThrown /\ previousProgress # None
    THEN previousProgress
    ELSE qd

\* the mutation fails (retries used up): onError, onSettled, mutateAsync
\* rejects and retryWithBackoff waits before its next attempt
HMutationFailed ==
    /\ h.pc = "write"
    /\ h.failureCount >= MutationRetry
    /\ h.attempt < MaxRetries
    /\ \E resp \in Responses(h.call) :
        /\ resp.err # ""
        /\ localStorage' = afterWriteError(localStorage, resp.err, h.locationId)
        /\ queryData' = rollback(queryData, h.previousProgress, thrownError(resp.err))
        /\ q' = invalidateQueries(q, localStorage', hist)
        /\ hist' = taken(hist, q')
        /\ h' = [h EXCEPT !.pc = "backoff", !.attempt = @ + 1, !.call = NoCall,
                          !.error = thrownError(resp.err),
                          !.allNet = @ /\ isNetworkError(resp.err),
                          !.allTerm = @ /\ ~isNetworkError(resp.err),
                          !.marked = @ \/ localStorage' # localStorage]
    /\ UNCHANGED <<serverVars, lastOp, identity>>

\* variant: every error gets the generic failure toast
outcomeGeneric(error) == "failed"

\* handleComplete, else branch: which toast is shown for the last error
outcomeOf(error) ==
    IF error = NetworkErrorThrown THEN "queued"
    ELSE IF error = "Authentication required. Please log in again." THEN "auth"
    ELSE IF error = "Location not found. The story locations may not be initialized yet."
    THEN "notfound"
    ELSE "failed"

\* the last attempt of retryWithBackoff fails: handleComplete ends in its
\* else branch
HCompleteFailed ==
    /\ h.pc = "write"
    /\ h.failureCount >= MutationRetry
    /\ h.attempt >= MaxRetries
    /\ \E resp \in Responses(h.call) :
       LET error == thrownError(resp.err)
           allNet == h.allNet /\ isNetworkError(resp.err)
           n == locationNumber(h.locationId)
           ended ==
               IF outcomeOf(error) = "queued"
               THEN [hist EXCEPT
                        !.queued = IF includes(CachedLocations(localStorage'), n)
                                      /\ hasUnsyncedProgress(localStorage')
                                   THEN @ \cup {n} ELSE @,
                        !.phase  = IF allNet THEN "queued" ELSE "none",
                        !.loc    = IF allNet THEN n ELSE 0]
               ELSE hist
       IN  /\ resp.err # ""
           /\ localStorage' = afterWriteError(localStorage, resp.err, h.locationId)
           /\ queryData' = rollback(queryData, h.previousProgress, error)
           /\ q' = invalidateQueries(q, localStorage', ended)
           /\ hist' = taken(ended, q')
           /\ h' = [HIdle EXCEPT !.locationId = h.locationId,
                                 !.outcome = outcomeOf(error)]
    /\ UNCHANGED <<serverVars, lastOp, identity>>

Next ==
    \/ StartFetch
    \/ ServerProcessQ
    \/ QSyncRead
    \/ QSyncWrite
    \/ QRead
    \/ PressDone
    \/ RetryAfterBackoff
    \/ ServerProcessH
    \/ HWriteOk
    \/ HConfirm
    \/ HWriteRetry
    \/ HMutationFailed
    \/ HCompleteFailed

Spec == Init /\ [][Next]_vars

(***************************************************************************)
(* Server properties                                                       *)
(***************************************************************************)

Elems(seq) == {seq[i] : i \in 1 .. Len(seq)}

CompletedOf(store, u) == IF u \in DOMAIN store THEN store[u].completedLocations ELSE <<>>

\* C3: calling updateProgress twice with the same arguments leaves the same
\* completedLocations as calling it once, from every reachable state and for
\* every caller and location; and right after a successful updateProgress
\* the same call again is no error, changes nothing and returns that record.
C3_WriteIdempotent ==
    /\ \A caller \in Users, locationId \in LocationIds :
          LET once  == updateProgress(userProgress, storyLocations, userRoles,
                                      caller, locationId, <<>>)
              twice == updateProgress(once.store, storyLocations, userRoles,
                                      caller, locationId, <<>>)
          IN  /\ CompletedOf(twice.store, caller) = CompletedOf(once.store, caller)
              /\ once.err = "" =>
                    /\ twice.err = ""
                    /\ twice.store = once.store
                    /\ twice.result = once.store[caller]
    /\ (lastOp.op = "updateProgress" /\ lastOp.err = "") =>
          LET again == updateProgress(userProgress, storyLocations, userRoles,
                                      lastOp.caller, lastOp.arg, <<>>)
          IN  /\ again.err = ""
              /\ again.store = userProgress
              /\ again.result = lastOp.result

\* a duplicate write has been answered with the unchanged record
C3_Witness ==
    /\ lastOp.op = "updateProgress"
    /\ lastOp.err = ""
    /\ lastOp.dup
    /\ Len(lastOp.result.completedLocations) = 2
    /\ userProgress[lastOp.caller] = lastOp.result

\* C4: in every step, whatever the call and whether it succeeds or traps,
\* every user keeps its record and every location in its completedLocations.
C4_Monotonic ==
    [][\A u \in DOMAIN userProgress :
          /\ u \in DOMAIN userProgress'
          /\ Elems(userProgress[u].completedLocations)
                \subseteq Elems(userProgress'[u].completedLocations)]_vars

\* a record holding two locations has gone through updateMainProgress
C4_Witness ==
    /\ lastOp.op = "updateMainProgress"
    /\ lastOp.err = ""
    /\ Len(userProgress[lastOp.caller].completedLocations) = 2

\* C5: in every server record stageN is true exactly when at least N
\* locations are completed.
C5_FlagsConsistent ==
    \A u \in DOMAIN userProgress :
        LET p == userProgress[u]
            n == Len(p.completedLocations)
        IN  /\ p.mainProgress.stage1 = (n >= 1)
            /\ p.mainProgress.stage2 = (n >= 2)
            /\ p.mainProgress.stage3 = (n >= 3)

OutOfRangeId(locationId) == locationId < 1 \/ locationId > InitialTotalLocations

InvalidLocationErrors ==
    {"Invalid location ID: Location not found", "Invalid sequence number: Out of range"}

ServerLocations == CompletedOf(userProgress, identity)

CacheSynced ==
    "userProgress" \in DOMAIN localStorage /\ localStorage["userProgress"].synced

IsPrefix(s, t) == Len(s) <= Len(t) /\ SubSeq(t, 1, Len(s)) = s

\* C1: a location whose complete() ended with the location stored in the
\* local cache as unsynced is, in every later state, in the cached
\* completedLocations or in the server's completedLocations of the user.
C1_NoCompletionLost ==
    \A n \in hist.queued :
        includes(CachedLocations(localStorage), n) \/ includes(ServerLocations, n)

\* C2: when every attempt of complete(loc) failed with a network error, the
\* first reconcile begun afterwards (syncUnsyncedProgress of the first
\* fetch started after complete ended), once it has returned true (none of
\* its calls failed), has loc in the server's completedLocations.
C2_ReconcileAfterFailure ==
    (q.track # 0 /\ q.sync \in {"true", "noop"}) => includes(ServerLocations, q.track)

\* the step in which mutationFn resolves
MutationResolves == h.pc = "write" /\ h'.pc = "awaitRefetch"

\* C7 as stated: when mutationFn resolves, the cached completedLocations
\* equal the server's completedLocations of the user and synced = true.
C7_CacheEqualsServer ==
    [][MutationResolves =>
          /\ CachedLocations(localStorage') = CompletedOf(userProgress', identity')
          /\ CacheSynced']_vars

\* C7 amended: when mutationFn resolves, the cache entry has synced = true
\* and its completedLocations are those of the record the write returned:
\* they hold the location and are an initial part of the server's
\* completedLocations (equal unless another write of the user was
\* processed after this one).
C7_CacheIsReturnedRecord ==
    [][MutationResolves =>
          /\ CacheSynced'
          /\ CachedLocations(localStorage') = h.call.result.completedLocations
          /\ includes(CachedLocations(localStorage'), locationNumber(h.locationId))
          /\ IsPrefix(CachedLocations(localStorage'),
                      CompletedOf(userProgress', identity'))]_vars

\* a second location has just been confirmed
C7_Witness ==
    /\ h.pc = "awaitRefetch"
    /\ CacheSynced
    /\ Len(CachedLocations(localStorage)) = 2
    /\ CachedLocations(localStorage) = ServerLocations

\* C8: a cache entry with synced = true holds a set of completedLocations
\* that the server has held for the user (the server's list only grows at
\* its end, so the sets it has held are those of its initial parts).
C8_SyncedIsServerCopy ==
    CacheSynced =>
        \E k \in 0 .. Len(ServerLocations) :
            Elems(CachedLocations(localStorage)) = Elems(SubSeq(ServerLocations, 1, k))

\* C9: no write is in flight after a write of the same complete() failed
\* with a terminal error (Unauthorized or invalid location).
C9_TerminalNotRetried ==
    ~(h.pc = "write" /\ h.error \in TerminalErrorsThrown)

\* C10: one press of Done calls actor.updateProgress at most 3 times.
C10_AtMostThreeWrites == h.writes <= 3

\* the step in which complete() ends after every write attempt of it failed
\* with a network error
EndsAllNetworkFailed ==
    h.pc = "write" /\ h'.pc = "idle" /\ h.allNet /\ h'.outcome = "queued"

\* C11: when complete(loc) ends after all its write attempts failed with
\* network errors, the in-memory progress and the durable entry both
\* contain loc and the durable entry has synced = false.
C11_OptimisticKept ==
    [][EndsAllNetworkFailed =>
          /\ includes(CachedLocations(localStorage'), locationNumber(h.locationId))
          /\ ~CacheSynced'
          /\ includes(InMemoryLocations(queryData'), locationNumber(h.locationId))]_vars

\* the step in which complete() ends with a terminal error surfaced
\* (authentication or location-not-found toast, the popup stays open)
EndsTerminal ==
    h.pc = "write" /\ h'.pc = "idle" /\ h'.outcome \in {"auth", "notfound"}

\* C12: when complete(loc) ends with a terminal error, loc is not shown as
\* completed by the in-memory or the durable cache unless it was cached
\* before the call, and complete() has not written the durable entry
\* (it has not stored loc as unsynced).
C12_TerminalRolledBack ==
    [][EndsTerminal =>
          /\ ~h.hadBefore =>
                /\ ~includes(InMemoryLocations(queryData'), locationNumber(h.locationId))
                /\ ~includes(CachedLocations(localStorage'), locationNumber(h.locationId))
          /\ ~h.marked]_vars

(***************************************************************************)
(* The verification path of mutationFn.  The canister of this repository   *)
(* answers a successful updateProgress with a record that holds the        *)
(* location, so mutationFn calls verifyProgressSaved only against a store  *)
(* that reports a write as successful before the record shows it.          *)
(* SpecVerify runs the client against such a store: a successful answer    *)
(* carries a record with or without the location of the call.  The calls  *)
(* of the progress query get no answer here (each ends in a network        *)
(* error), so a fetch returns the durable cache or the default structure.  *)
(* h.vattempt is the attempt of verifyProgressSaved, hist.reads counts the *)
(* verification reads of this press of Done up to MaxVerify + 1.           *)
(***************************************************************************)

\* mutationFn: verifyProgressSaved(actor, locationId, 3)
MaxVerify == 3

VerificationError == "Progress not found in backend after all verification attempts"

\* the records a store answers with for the location written
StoreRecords(n) == {initialProgress, optimisticProgress(initialProgress, n)}

\* the store answers the call of the Done handler
StoreAnswersH ==
    /\ h.call.state = "sent"
    /\ \E r \in StoreRecords(locationNumber(h.locationId)) :
          h' = [h EXCEPT !.call.state = "processed", !.call.err = "", !.call.result = r]
    /\ UNCHANGED <<serverVars, lastOp, identity, localStorage, queryData, q, hist>>

\* one more verification read (the count stops above MaxVerify)
countRead(n) == IF n > MaxVerify THEN n ELSE n + 1

\* mutationFn: the write succeeded and the record lacks the location
\* (!isSavedInResult): verifyProgressSaved makes its first read
HWriteUnverified ==
    /\ h.pc = "write"
    /\ \E resp \in Responses(h.call) :
        /\ resp.err = ""
        /\ ~includes(resp.result.completedLocations, locationNumber(h.locationId))
    /\ h' = [h EXCEPT !.pc = "verify", !.vattempt = 1,
                      !.call = Sent("getUserProgress", 0)]
    /\ hist' = [hist EXCEPT !.reads = countRead(@)]
    /\ UNCHANGED <<serverVars, lastOp, identity, localStorage, queryData, q>>

\* verifyProgressSaved: the read shows the location; mutationFn caches the
\* record and resolves, onSuccess sets the query data and invalidates
HVerified ==
    /\ h.pc = "verify"
    /\ \E resp \in Responses(h.call) :
        /\ resp.err = ""
        /\ includes(resp.result.completedLocations, locationNumber(h.locationId))
        /\ localStorage' = saveProgressToLocalStorage(localStorage, resp.result)
        /\ queryData' = Some(resp.result)
        /\ h' = [h EXCEPT !.pc = "awaitRefetch", !.call.state = "done",
                          !.call.result = resp.result]
    /\ q' = invalidateQueries(q, localStorage', hist)
    /\ hist' = taken(hist, q')
    /\ UNCHANGED <<serverVars, lastOp, identity>>

\* verifyProgressSaved: the read fails or lacks the location, next attempt
HVerifyAgain ==
    /\ h.pc = "verify"
    /\ h.vattempt < MaxVerify
    /\ \E resp \in Responses(h.call) :
          resp.err # ""
          \/ ~includes(resp.result.completedLocations, locationNumber(h.locationId))
    /\ h' = [h EXCEPT !.vattempt = @ + 1, !.call = Sent("getUserProgress", 0)]
    /\ hist' = [hist EXCEPT !.reads = countRead(@)]
    /\ UNCHANGED <<serverVars, lastOp, identity, localStorage, queryData, q>>

\* verifyProgressSaved returns verified: false after its last attempt and
\* mutationFn throws verification.error inside its try block
HVerifyFailed ==
    /\ h.pc = "verify"
    /\ h.vattempt >= MaxVerify
    /\ \E resp \in Responses(h.call) :
        /\ resp.err # ""
           \/ ~includes(resp.result.completedLocations, locationNumber(h.locationId))
        /\ h' = [h EXCEPT !.pc = "write",
                          !.call = [state  |-> "thrown",
                                    op     |-> "updateProgress",
                                    arg    |-> h.locationId,
                                    err    |-> IF resp.err # "" THEN resp.err
                                               ELSE VerificationError,
                                    result |-> initialProgress]]
    /\ UNCHANGED <<serverVars, lastOp, identity, localStorage, queryData, q, hist>>

NextVerify ==
    \/ QSyncRead
    \/ QRead
    \/ PressDone
    \/ RetryAfterBackoff
    \/ StoreAnswersH
    \/ HWriteOk
    \/ HWriteUnverified
    \/ HVerified
    \/ HVerifyAgain
    \/ HVerifyFailed
    \/ HConfirm
    \/ HWriteRetry
    \/ HMutationFailed
    \/ HCompleteFailed

SpecVerify == ServerInit /\ [][NextVerify]_vars

\* the step in which complete() ends after the last verification found the
\* location in none of its reads
EndsUnverified ==
    /\ h.pc = "write"
    /\ h.call.state = "thrown"
    /\ h.call.err = VerificationError
    /\ h'.pc = "idle"

FetchStarts ==
    q'.pc # "idle" /\ (q.pc = "idle" \/ (q.again # "no" /\ q'.again = "no"))

\* the cache holds no entry, or one whose synced flag is set
NoUnsyncedEntry(ls) ==
    "userProgress" \notin DOMAIN ls \/ ls["userProgress"].synced

\* C14: syncUnsyncedProgress begun while the cache has no unsynced entry
\* returns at once: it makes no read and no write of its own (the fetch
\* goes straight to queryFn's read) and it leaves localStorage as it is;
\* the reads and writes of a reconcile are made only by a run that found
\* an unsynced entry.
C14_ReconcileNoOp ==
    /\ [](q.sync = "noop" => (q.pc = "read" /\ q.newLocs = <<>>))
    /\ [](q.pc \in {"syncRead", "syncWrite"} =>
             (q.sync = "running" /\ q.cachedProgress # None))
    /\ [][(FetchStarts /\ NoUnsyncedEntry(localStorage')) =>
             (q'.sync = "noop" /\ q'.pc = "read" /\ q'.cachedProgress = None)]_vars

\* a fetch over a synced entry holding a location is at queryFn's read
C14_Witness ==
    /\ q.sync = "noop"
    /\ q.pc = "read"
    /\ q.call.state = "processed"
    /\ CacheSynced
    /\ Len(CachedLocations(localStorage)) >= 1

\* the progress fetch finishes: queryFn returns
FetchFinishes ==
    q.pc = "read" /\ (q'.pc = "idle" \/ (q.again # "no" /\ q'.again = "no"))

\* the reconcile of the fetch that finishes gave up on a failed replay
ReplayFailed == q.sync = "false" /\ q.newLocs # <<>>

\* C15: syncUnsyncedProgress replays a write for every cached location the
\* fresh read does not hold and marks the entry synced only after the last
\* one succeeded; when a replay failed, the entry is unsynced and holds the
\* locations not replayed at the moment the enclosing fetch finishes.
C15_FailedReplayStaysUnsynced ==
    [][(FetchFinishes /\ ReplayFailed) =>
          /\ hasUnsyncedProgress(localStorage')
          /\ \A i \in 1..Len(q.newLocs) :
                includes(CachedLocations(localStorage'), q.newLocs[i])]_vars

\* the completedLocations the reconcile of the running fetch loaded from
\* localStorage when it began
CachedBefore ==
    IF q.cachedProgress = None THEN <<>> ELSE q.cachedProgress[1].completedLocations

\* the canister processes a replayed write of syncUnsyncedProgress
ReplayProcessed ==
    q.pc = "syncWrite" /\ q.call.state = "sent" /\ q'.call.state = "processed"

\* a fetch finishes whose reconcile returned true and whose read succeeded
ReconciledFetchFinishes ==
    FetchFinishes /\ q.sync = "true" /\ CacheSynced'

MaxRuns == 3

\* orders in which the two locations of initializeLocations get completed
WriteOrders == {<<>>, <<1>>, <<2>>, <<1, 2>>, <<2, 1>>}

\* the store after updateProgress has been called for each location of seq
RECURSIVE Written(_, _)
Written(store, seq) ==
    IF seq = <<>>
    THEN store
    ELSE Written(updateProgress(store, initializeLocations(EmptyMap), {"A"}, "A",
                                seq[1], <<>>).store,
                 Tail(seq))

\* localStorage after mutationFn has saved each location of seq offline
RECURSIVE SavedOffline(_, _)
SavedOffline(ls, seq) ==
    IF seq = <<>> THEN ls ELSE SavedOffline(saveOffline(ls, seq[1], <<>>), Tail(seq))

\* localStorage after queryFn has cached the record of a server with seq
SavedFrom(seq) ==
    saveProgressToLocalStorage(EmptyMap,
        getUserProgress(Written(EmptyMap, seq), {"A"}, "A").result)

InitReconcile ==
    /\ userProgress \in {Written(EmptyMap, seq) : seq \in WriteOrders}
    /\ storyLocations = initializeLocations(EmptyMap)
    /\ userRoles = {"A"}
    /\ lastOp = Op("init", "A", 0, Ok(initialProgress, EmptyMap))
    /\ identity = "A"
    /\ localStorage \in {SavedOffline(EmptyMap, seq) : seq \in WriteOrders}
                          \cup {SavedFrom(seq) : seq \in WriteOrders}
    /\ queryData = None
    /\ q = QIdle
    /\ h = HIdle
    /\ hist = [queued |-> {}, phase |-> "none", loc |-> 0, presses |-> 0, fetches |-> 0,
               reads |-> 0, once |-> None, logouts |-> 0,
               parked |-> None]

\* the progress query is fetched (mount, view change, timer); the second
\* run records the state the first one left
RunFetch ==
    /\ q.pc = "idle"
    /\ hist.fetches < MaxRuns
    /\ q' = fetchStart(localStorage, hist)
    /\ hist' = [hist EXCEPT !.fetches = @ + 1,
                            !.once = IF hist.fetches = 1
                                     THEN Some([store |-> userProgress,
                                                cache |-> localStorage])
                                     ELSE @]
    /\ UNCHANGED <<serverVars, lastOp, identity, localStorage, queryData, h>>

NextReconcile ==
    \/ RunFetch
    \/ ServerProcessQ
    \/ QSyncRead
    \/ QSyncWrite
    \/ QRead

SpecReconcile == InitReconcile /\ [][NextReconcile]_vars

ScenarioInit ==
    /\ userProgress = EmptyMap
    /\ storyLocations = initializeLocations(EmptyMap)
    /\ userRoles = {"A"}
    /\ lastOp = Op("init", "A", 0, Ok(initialProgress, EmptyMap))
    /\ ClientInit

NetworkUp == ~(hist.presses = 2 /\ hist.fetches = 0)

Quiet == h.pc = "idle" /\ q.pc = "idle"

\* the page mounts and fetches the progress query, before the first press
\* of Done or while its mutation runs
MountFetch ==
    /\ q.pc = "idle"
    /\ queryData = None
    /\ q' = fetchStart(localStorage, hist)
    /\ UNCHANGED <<serverVars, lastOp, identity, localStorage, queryData, h, hist>>

Complete1 == hist.presses = 0 /\ Press(1)

Complete2Offline == hist.presses = 1 /\ Quiet /\ Press(2)

\* the network is back and the progress query is fetched
RestoreAndFetch ==
    /\ hist.presses = 2
    /\ hist.fetches = 0
    /\ Quiet
    /\ q' = fetchStart(localStorage, hist)
    /\ hist' = [taken(hist, q') EXCEPT !.fetches = @ + 1]
    /\ UNCHANGED <<serverVars, lastOp, identity, localStorage, queryData, h>>

Complete2Again == hist.presses = 2 /\ hist.fetches = 1 /\ Quiet /\ Press(2)

OnlineProcessQ == NetworkUp /\ ServerProcessQ

OnlineProcessH == NetworkUp /\ ServerProcessH

ScenarioSyncRead == QSyncRead /\ (NetworkUp => q'.sync # "false")

ScenarioSyncWrite == QSyncWrite /\ (NetworkUp => q'.sync # "false")

ScenarioRead == QRead /\ (NetworkUp => CacheSynced')

OfflineWriteRetry == ~NetworkUp /\ HWriteRetry

OfflineMutationFailed == ~NetworkUp /\ HMutationFailed

OfflineCompleteFailed == ~NetworkUp /\ HCompleteFailed

NextScenario ==
    \/ MountFetch
    \/ Complete1
    \/ Complete2Offline
    \/ RestoreAndFetch
    \/ Complete2Again
    \/ OnlineProcessQ
    \/ OnlineProcessH
    \/ ScenarioSyncRead
    \/ ScenarioSyncWrite
    \/ ScenarioRead
    \/ RetryAfterBackoff
    \/ HWriteOk
    \/ HConfirm
    \/ OfflineWriteRetry
    \/ OfflineMutationFailed
    \/ OfflineCompleteFailed

SpecScenario == ScenarioInit /\ [][NextScenario]_vars

\* what the progress view shows: n of totalLocations
Shows(n, total) ==
    /\ queryData # None
    /\ Len(queryData[1].completedLocations) = n
    /\ queryData[1].totalLocations = total

\* C18: in the scenario, the first complete(1) ends Confirmed with 1 of 3;
\* complete(2) with the network down ends queued with location 2 in the
\* cache entry and synced = false; the fetch after the network is back
\* leaves the server with <<1, 2>> and the cache entry synced with 2 of 3;
\* complete(2) once more ends Confirmed with the same locations.
C18_Scenario ==
    /\ (hist.presses = 1 /\ h.pc = "idle") =>
          /\ h.outcome = "confirmed"
          /\ ServerLocations = <<1>>
          /\ Shows(1, 3)
    /\ (hist.presses = 2 /\ hist.fetches = 0 /\ h.pc = "idle") =>
          /\ h.outcome = "queued"
          /\ includes(CachedLocations(localStorage), 2)
          /\ hasUnsyncedProgress(localStorage)
          /\ ServerLocations = <<1>>
    /\ (hist.presses = 2 /\ hist.fetches = 1 /\ Quiet) =>
          /\ ServerLocations = <<1, 2>>
          /\ CacheSynced
          /\ CachedLocations(localStorage) = <<1, 2>>
          /\ Shows(2, 3)
    /\ (hist.presses = 3 /\ h.pc = "idle") =>
          /\ h.outcome = "confirmed"
          /\ ServerLocations = <<1, 2>>
          /\ CachedLocations(localStorage) = <<1, 2>>
          /\ Shows(2, 3)

\* the scenario has run to its end
C18_Witness ==
    /\ hist.presses = 3
    /\ Quiet
    /\ h.outcome = "confirmed"
    /\ hist.queued = {2}
    /\ ServerLocations = <<1, 2>>

\* C19: getUserProgress called by a first-time caller that holds the user
\* permission returns the empty record (no completed location, last
\* completed location 0, totalLocations 3, no stage flag set) and stores it
\* for the caller; called by a caller that has a record it returns that
\* record and does not fail.
C19_ReadCreatesOrReturns ==
    [][lastOp'.op = "getUserProgress" =>
          /\ (lastOp'.caller \in userRoles /\ lastOp'.caller \notin DOMAIN userProgress) =>
                /\ lastOp'.err = ""
                /\ lastOp'.result = initialProgress
                /\ lastOp'.caller \in DOMAIN userProgress'
                /\ userProgress'[lastOp'.caller] = initialProgress
          /\ lastOp'.caller \in DOMAIN userProgress =>
                /\ lastOp'.err = ""
                /\ lastOp'.result = userProgress[lastOp'.caller]]_vars

(***************************************************************************)
(* Logout (pages/HomePage.tsx handleLogout) and logging in again.  The     *)
(* task popup is a modal dialog, so Logout is pressed while no Done        *)
(* handler runs; a fetch may be in flight: queryClient.clear() removes the *)
(* query, so its result is dropped, while its queryFn runs to its end with *)
(* the actor of the identity that started it.                              *)
(***************************************************************************)

\* logouts in one run
MaxLogouts == 1

\* presses of Done in one run with logouts
MaxPressesLogout == 1

\* the principal of the one user that logs in
ActorPrincipal == "A"

\* variant: localStorage is left as it is
clearNothing(ls) == ls

\* localStorage.clear()
clear(ls) == EmptyMap

Logout ==
    /\ identity = ActorPrincipal
    /\ h.pc = "idle"
    /\ hist.logouts < MaxLogouts
    /\ localStorage' = clear(localStorage)
    /\ queryData' = None
    /\ q' = IF q.pc = "idle" THEN q ELSE [q EXCEPT !.cancelled = TRUE, !.again = "no"]
    /\ identity' = ""
    /\ hist' = [hist EXCEPT !.logouts = @ + 1]
    /\ UNCHANGED <<serverVars, lastOp, h>>

\* the user logs in again once the fetch left behind has ended; the effect
\* on [identity] refetches the progress
Login ==
    /\ identity = ""
    /\ q.pc = "idle"
    /\ identity' = ActorPrincipal
    /\ q' = fetchStart(localStorage, hist)
    /\ hist' = taken(hist, q')
    /\ UNCHANGED <<serverVars, lastOp, localStorage, queryData, h>>

LoggedInFetch == identity = ActorPrincipal /\ StartFetch

LoggedInPress ==
    /\ identity = ActorPrincipal
    /\ hist.presses < MaxPressesLogout
    /\ \E loc \in ScannedLocationIds : Press(loc)

NextLogout ==
    \/ Logout
    \/ Login
    \/ LoggedInFetch
    \/ LoggedInPress
    \/ ProcessQ(ActorPrincipal)
    \/ QSyncRead
    \/ QSyncWrite
    \/ QRead
    \/ RetryAfterBackoff
    \/ ServerProcessH
    \/ HWriteOk
    \/ HConfirm
    \/ HWriteRetry
    \/ HMutationFailed
    \/ HCompleteFailed

SpecLogout == ScenarioInit /\ [][NextLogout]_vars

LogoutStep == identity = ActorPrincipal /\ identity' = ""

\* C20: Logout empties the durable cache and the in-memory cache and
\* leaves every server record as it is; no other step removes the durable
\* entry, the in-memory entry or the record of an identity on the server.
C20_OnlyLogoutClears ==
    [][/\ LogoutStep =>
            /\ "userProgress" \notin DOMAIN localStorage'
            /\ queryData' = None
            /\ userProgress' = userProgress
       /\ ~LogoutStep =>
            /\ "userProgress" \in DOMAIN localStorage =>
                   "userProgress" \in DOMAIN localStorage'
            /\ queryData # None => queryData' # None
            /\ \A u \in DOMAIN userProgress :
                   u \in DOMAIN userProgress'
                   /\ Elems(userProgress[u].completedLocations)
                        \subseteq Elems(userProgress'[u].completedLocations)]_vars

\* the user has logged out after a confirmed completion: both caches are
\* empty and the server still holds the location
C20_Witness ==
    /\ identity = ""
    /\ hist.logouts = 1
    /\ h.outcome = "confirmed"
    /\ "userProgress" \notin DOMAIN localStorage
    /\ queryData = None
    /\ Len(CompletedOf(userProgress, ActorPrincipal)) = 1

NoDuplicates(seq) == \A i, j \in 1 .. Len(seq) : seq[i] = seq[j] => i = j

\* C21: updateProgress has no await, so the canister runs each call as one
\* step and calls issued together are run in some order.  In every order,
\* no record ever holds a location twice, and a write that succeeds leaves
\* its location in the caller's record together with every location the
\* record held before.
C21_NoWriteDropped ==
    /\ [](\A u \in DOMAIN userProgress :
             NoDuplicates(userProgress[u].completedLocations))
    /\ [][(lastOp'.op = "updateProgress" /\ lastOp'.err = "") =>
             /\ includes(CompletedOf(userProgress', lastOp'.caller),
                         storyLocations[lastOp'.arg])
             /\ Elems(CompletedOf(userProgress, lastOp'.caller))
                   \subseteq Elems(CompletedOf(userProgress', lastOp'.caller))]_vars

\* writes of both locations and a duplicate have been run, location_2 first
C21_Witness ==
    /\ lastOp.op = "updateProgress"
    /\ lastOp.err = ""
    /\ lastOp.dup
    /\ CompletedOf(userProgress, lastOp.caller) = <<2, 1>>

(***************************************************************************)
(* Two handleComplete at once.  The Done button is disabled while the      *)
(* mutation of useUpdateUserProgress is pending (isSavingProgress); once a *)
(* mutation has failed, retryWithBackoff waits before its next attempt and *)
(* the button is enabled.  A press then runs a second handleComplete.  Its *)
(* steps and those of the first interleave: h is the handler taking the    *)
(* next step, hist.parked the other one.                                   *)
(***************************************************************************)

\* the Done button: disabled={isSavingProgress}
isSavingProgress(hd) == hd.pc \in {"write", "awaitRefetch"}

FirstPress ==
    /\ hist.presses = 0
    /\ hist.parked = None
    /\ \E loc \in ScannedLocationIds : Press(loc)

\* Done is pressed while a handleComplete for the location is in flight
PressAgain ==
    /\ h.pc # "idle"
    /\ hist.parked = None
    /\ ~isSavingProgress(h)
    /\ BeginMutation(h.locationId, 0, 0, "", TRUE, TRUE, TRUE, FALSE)
    /\ hist' = [hist EXCEPT !.parked = Some(h)]

\* the other handleComplete takes the next step
Switch ==
    /\ hist.parked # None
    /\ h' = hist.parked[1]
    /\ hist' = [hist EXCEPT !.parked = Some(h)]
    /\ UNCHANGED <<serverVars, lastOp, identity, localStorage, queryData, q>>

NextDouble ==
    \/ FirstPress
    \/ PressAgain
    \/ Switch
    \/ ServerProcessQ
    \/ QSyncRead
    \/ QSyncWrite
    \/ QRead
    \/ RetryAfterBackoff
    \/ ServerProcessH
    \/ HWriteOk
    \/ HConfirm
    \/ HWriteRetry
    \/ HMutationFailed
    \/ HCompleteFailed

SpecDouble == ScenarioInit /\ [][NextDouble]_vars

\* C22: while a handleComplete for a location is in flight, backoff waits
\* included, no press of Done starts a second handleComplete with a server
\* write of its own.
C22_SecondPressIgnored ==
    [][(h.pc # "idle" /\ hist.parked = None) =>
          ~(hist'.parked # None /\ h'.call.state = "sent" /\ h'.writes = 1)]_vars

(***************************************************************************)
(* Fetch and complete() side by side against a healthy store: the caller   *)
(* holds the user permission, both locations are registered and every call *)
(* is processed and answered.  The client starts with the cache entry of   *)
(* an earlier session, synced or not, and any server record.               *)
(***************************************************************************)

HealthySyncRead == QSyncRead /\ q'.sync # "false"

HealthySyncWrite == QSyncWrite /\ q'.sync # "false"

HealthyRead ==
    /\ q.call.state = "processed"
    /\ QRead
    /\ localStorage' = saveProgressToLocalStorage(localStorage, q.call.result)

NextHealthy ==
    \/ StartFetch
    \/ PressDone
    \/ ServerProcessQ
    \/ HealthySyncRead
    \/ HealthySyncWrite
    \/ HealthyRead
    \/ ServerProcessH
    \/ HWriteOk
    \/ HConfirm

SpecHealthy == InitReconcile /\ [][NextHealthy]_vars

NextLive ==
    \/ StartFetch
    \/ FirstPress
    \/ ServerProcessQ
    \/ QSyncRead
    \/ QSyncWrite
    \/ QRead
    \/ RetryAfterBackoff
    \/ ServerProcessH
    \/ HWriteOk
    \/ HConfirm
    \/ HWriteRetry
    \/ HMutationFailed
    \/ HCompleteFailed

SpecLive == Init /\ [][NextLive]_vars /\ WF_vars(NextLive)

\* handleComplete has reached one of its toasts
Ended == h.pc = "idle" /\ h.outcome # "none"

\* the canister accepts the write of the handler
WriteAccepted == identity \in userRoles /\ h.locationId \in DOMAIN storyLocations

\* C24 as stated: every complete() ends Confirmed or queued.
C24_EndsConfirmedOrQueued ==
    /\ [](Ended => h.outcome \in {"confirmed", "queued"})
    /\ (h.pc # "idle") ~> Ended

\* C24 amended: every complete() ends, whatever calls fail; it ends
\* Confirmed or queued when the canister accepts the write, and queued or
\* with the authentication or location error when the canister rejects it.
C24_Terminates ==
    /\ [](Ended =>
            IF WriteAccepted
            THEN h.outcome \in {"confirmed", "queued"}
            ELSE h.outcome \in {"queued", "auth", "notfound"})
    /\ (h.pc # "idle") ~> Ended

\* a complete() ended queued although the canister had stored the location:
\* the answers were lost
C24_Witness ==
    /\ Ended
    /\ h.outcome = "queued"
    /\ includes(ServerLocations, locationNumber(h.locationId))

(***************************************************************************)
(* retryWithBackoff (QuestTaskPopup.tsx) on its own, called with           *)
(* maxRetries = MaxRetries over an operation whose outcome at each call is *)
(* given by h.outcomes.  h.made counts the calls of operation().           *)
(***************************************************************************)

OperationResults == {"r1", "r2"}

OperationErrors == {"e1", "e2", "e3"}

\* what one call of operation() does: it resolves with a value or throws
OperationOutcomes ==
    [ok : {TRUE}, value : OperationResults, error : {""}]
        \cup [ok : {FALSE}, value : {""}, error : OperationErrors]

NoReturn == [success |-> FALSE, result |-> "", error |-> "", attempts |-> 0]

\* variant: exhaustion is reported as a success without a result
returnSwallowed(lastError, maxRetries) ==
    [success |-> TRUE, result |-> "", error |-> lastError, attempts |-> maxRetries + 1]

\* return { success: false, error: lastError, attempts: maxRetries + 1 }
returnFailure(lastError, maxRetries) ==
    [success |-> FALSE, result |-> "", error |-> lastError, attempts |-> maxRetries + 1]

\* return { success: true, result, attempts: attempt + 1 }
returnSuccess(result, attempt) ==
    [success |-> TRUE, result |-> result, error |-> "", attempts |-> attempt + 1]

InitRetry ==
    /\ userProgress = EmptyMap
    /\ storyLocations = EmptyMap
    /\ userRoles = {}
    /\ lastOp = Op("init", "A", 0, Ok(initialProgress, EmptyMap))
    /\ identity = "A"
    /\ localStorage = EmptyMap
    /\ queryData = None
    /\ q = QIdle
    /\ hist = [queued |-> {}, phase |-> "none", loc |-> 0, presses |-> 0, fetches |-> 0,
               reads |-> 0, once |-> None, logouts |-> 0,
               parked |-> None]
    /\ h \in [pc : {"call"}, outcomes : [1 .. MaxRetries + 1 -> OperationOutcomes],
              attempt : {0}, made : {0}, lastError : {""}, ret : {NoReturn}]

\* "const result = await operation(); return {..}": the attempt succeeds
AttemptSucceeds ==
    /\ h.pc = "call"
    /\ h.outcomes[h.attempt + 1].ok
    /\ h' = [h EXCEPT !.pc = "returned", !.made = @ + 1,
                      !.ret = returnSuccess(h.outcomes[h.attempt + 1].value, h.attempt)]
    /\ UNCHANGED <<serverVars, lastOp, identity, localStorage, queryData, q, hist>>

\* the catch block with attempt < maxRetries: lastError is kept, the delay
\* is awaited and the loop goes on
AttemptFailsAndWaits ==
    /\ h.pc = "call"
    /\ ~h.outcomes[h.attempt + 1].ok
    /\ h.attempt < MaxRetries
    /\ h' = [h EXCEPT !.attempt = @ + 1, !.made = @ + 1,
                      !.lastError = h.outcomes[h.attempt + 1].error]
    /\ UNCHANGED <<serverVars, lastOp, identity, localStorage, queryData, q, hist>>

\* the catch block of the last attempt: the loop ends and failure is returned
AttemptsExhausted ==
    /\ h.pc = "call"
    /\ ~h.outcomes[h.attempt + 1].ok
    /\ h.attempt >= MaxRetries
    /\ h' = [h EXCEPT !.pc = "returned", !.made = @ + 1,
                      !.lastError = h.outcomes[h.attempt + 1].error,
                      !.ret = returnFailure(h.outcomes[h.attempt + 1].error, MaxRetries)]
    /\ UNCHANGED <<serverVars, lastOp, identity, localStorage, queryData, q, hist>>

NextRetry ==
    \/ AttemptSucceeds
    \/ AttemptFailsAndWaits
    \/ AttemptsExhausted

SpecRetry == InitRetry /\ [][NextRetry]_vars

\* the calls of operation() that resolve
Successes(outcomes) == {i \in DOMAIN outcomes : outcomes[i].ok}

\* the first of them
FirstSuccess(outcomes) ==
    CHOOSE i \in Successes(outcomes) : \A j \in Successes(outcomes) : i <= j

\* C25: when retryWithBackoff has returned, either some attempt succeeded,
\* and it returned success with the value and the number of the first such
\* attempt and made no call of operation() after it, or every attempt
\* failed, and it returned failure with the error of the last attempt and
\* attempts = maxRetries + 1.
C25_RetryExecutor ==
    h.pc = "returned" =>
        IF Successes(h.outcomes) # {}
        THEN /\ h.ret = returnSuccess(h.outcomes[FirstSuccess(h.outcomes)].value,
                                      FirstSuccess(h.outcomes) - 1)
             /\ h.ret.success
             /\ h.made = FirstSuccess(h.outcomes)
        ELSE /\ ~h.ret.success
             /\ h.ret.error = h.outcomes[MaxRetries + 1].error
             /\ h.ret.attempts = MaxRetries + 1
             /\ h.made = MaxRetries + 1

\* retryWithBackoff returned the result of its last attempt after two
\* failures
C25_Witness ==
    /\ h.pc = "returned"
    /\ h.ret.success
    /\ h.ret.attempts = MaxRetries + 1
    /\ h.made = MaxRetries + 1

(***************************************************************************)
(* The waits between attempts.  h records, for the write, the fetch, the   *)
(* verification reads and retryWithBackoff, the delays awaited so far.     *)
(* The query library calls retryDelay with the failure count, 0 for the    *)
(* first retry; MaxAttemptIndex is the largest index tried here.           *)
(***************************************************************************)

MaxAttemptIndex == 4

\* variant: the delay is not capped
retryDelayUncapped(attemptIndex) == 500 * 2 ^ attemptIndex

\* retryDelay: (attemptIndex) => Math.min(500 * 2 ** attemptIndex, 2000)
retryDelay(attemptIndex) ==
    IF 500 * 2 ^ attemptIndex <= 2000 THEN 500 * 2 ^ attemptIndex ELSE 2000

\* verifyProgressSaved: const delay = 300 * Math.pow(2, attempt - 1)
verifyDelay(attempt) == 300 * 2 ^ (attempt - 1)

\* retryWithBackoff: const delay = 500 * Math.pow(2, attempt)
backoffDelay(attempt) == 500 * 2 ^ attempt

InitDelay ==
    /\ userProgress = EmptyMap
    /\ storyLocations = EmptyMap
    /\ userRoles = {}
    /\ lastOp = Op("init", "A", 0, Ok(initialProgress, EmptyMap))
    /\ identity = "A"
    /\ localStorage = EmptyMap
    /\ queryData = None
    /\ q = QIdle
    /\ hist = [queued |-> {}, phase |-> "none", loc |-> 0, presses |-> 0, fetches |-> 0,
               reads |-> 0, once |-> None, logouts |-> 0,
               parked |-> None]
    /\ h = [write |-> <<>>, fetch |-> <<>>, verify |-> <<>>, executor |-> <<>>]

\* the mutation waits before its next retry (retryDelay, line 590)
WriteRetryWait ==
    /\ Len(h.write) <= MaxAttemptIndex
    /\ h' = [h EXCEPT !.write = Append(@, retryDelay(Len(h.write)))]
    /\ UNCHANGED <<serverVars, lastOp, identity, localStorage, queryData, q, hist>>

\* the progress query waits before its next retry (retryDelay, line 406)
FetchRetryWait ==
    /\ Len(h.fetch) <= MaxAttemptIndex
    /\ h' = [h EXCEPT !.fetch = Append(@, retryDelay(Len(h.fetch)))]
    /\ UNCHANGED <<serverVars, lastOp, identity, localStorage, queryData, q, hist>>

\* verifyProgressSaved waits before read number attempt = 1 .. maxRetries
VerifyWait ==
    /\ Len(h.verify) < MaxVerify
    /\ h' = [h EXCEPT !.verify = Append(@, verifyDelay(Len(h.verify) + 1))]
    /\ UNCHANGED <<serverVars, lastOp, identity, localStorage, queryData, q, hist>>

\* retryWithBackoff waits after failed attempt number attempt < maxRetries
BackoffWait ==
    /\ Len(h.executor) < MaxRetries
    /\ h' = [h EXCEPT !.executor = Append(@, backoffDelay(Len(h.executor)))]
    /\ UNCHANGED <<serverVars, lastOp, identity, localStorage, queryData, q, hist>>

NextDelay ==
    \/ WriteRetryWait
    \/ FetchRetryWait
    \/ VerifyWait
    \/ BackoffWait

SpecDelay == InitDelay /\ [][NextDelay]_vars

NonDecreasing(seq) == \A i, j \in 1 .. Len(seq) : i <= j => seq[i] <= seq[j]

Increasing(seq) == \A i, j \in 1 .. Len(seq) : i < j => seq[i] < seq[j]

AtMost(seq, bound) == \A i \in 1 .. Len(seq) : seq[i] <= bound

\* C26: the delays awaited by the write and by the fetch are non-decreasing,
\* never above 2000 ms and start 500, 1000, 2000; the delays of the
\* verification reads are 300, 600, 1200 and those of retryWithBackoff are
\* 500, 1000, both increasing.
C26_DelaySchedules ==
    /\ NonDecreasing(h.write) /\ AtMost(h.write, 2000)
    /\ NonDecreasing(h.fetch) /\ AtMost(h.fetch, 2000)
    /\ IsPrefix(h.write, <<500, 1000, 2000>>) \/ IsPrefix(<<500, 1000, 2000>>, h.write)
    /\ IsPrefix(h.fetch, <<500, 1000, 2000>>) \/ IsPrefix(<<500, 1000, 2000>>, h.fetch)
    /\ IsPrefix(h.verify, <<300, 600, 1200>>) /\ Increasing(h.verify)
    /\ IsPrefix(h.executor, <<500, 1000>>) /\ Increasing(h.executor)

\* every schedule has run to its end, the write's beyond the cap
C26_Witness ==
    /\ Len(h.write) = MaxAttemptIndex + 1
    /\ h.write[MaxAttemptIndex + 1] = 2000
    /\ Len(h.fetch) = MaxAttemptIndex + 1
    /\ h.verify = <<300, 600, 1200>>
    /\ h.executor = <<500, 1000>>

(***************************************************************************)
(* saveProgressToLocalStorage followed by loadProgressFromLocalStorage,    *)
(* for progress records drawn from NatValues.  h.progress is the record    *)
(* handed to the save, h.loaded what the load returned.                    *)
(***************************************************************************)

MaxSaved == 2

\* values of the Nat fields: 0, small ones, several digits, and the
\* largest the checker's integers hold
NatValues == {0, 3, 10, 2147483647}

RECURSIVE SeqsUpTo(_, _)
SeqsUpTo(S, n) ==
    IF n = 0
    THEN {<<>>}
    ELSE LET shorter == SeqsUpTo(S, n - 1)
         IN  shorter \cup {Append(seq, x) : seq \in shorter, x \in S}

ProgressRecords ==
    [lastCompletedLocation : NatValues,
     completedLocations    : SeqsUpTo(NatValues, MaxSaved),
     currentSequences      : SeqsUpTo(NatValues, 1),
     totalLocations        : NatValues,
     mainProgress          : {MainProgress(a, b, c) : a, b, c \in BOOLEAN}]

InitRoundTrip ==
    /\ userProgress = EmptyMap
    /\ storyLocations = EmptyMap
    /\ userRoles = {}
    /\ lastOp = Op("init", "A", 0, Ok(initialProgress, EmptyMap))
    /\ identity = "A"
    /\ localStorage \in {EmptyMap, saveOffline(EmptyMap, 1, <<>>)}
    /\ queryData = None
    /\ q = QIdle
    /\ hist = [queued |-> {}, phase |-> "none", loc |-> 0, presses |-> 0, fetches |-> 0,
               reads |-> 0, once |-> None, logouts |-> 0,
               parked |-> None]
    /\ h \in [pc : {"start"}, progress : ProgressRecords, loaded : {None}]

Save ==
    /\ h.pc = "start"
    /\ localStorage' = saveProgressToLocalStorage(localStorage, h.progress)
    /\ h' = [h EXCEPT !.pc = "saved"]
    /\ UNCHANGED <<serverVars, lastOp, identity, queryData, q, hist>>

Load ==
    /\ h.pc = "saved"
    /\ h' = [h EXCEPT !.pc = "loaded", !.loaded = loadProgressFromLocalStorage(localStorage)]
    /\ UNCHANGED <<serverVars, lastOp, identity, localStorage, queryData, q, hist>>

NextRoundTrip ==
    \/ Save
    \/ Load

SpecRoundTrip == InitRoundTrip /\ [][NextRoundTrip]_vars

CompleteFails == h.pc = "write" /\ h'.pc = "idle"

\* a write of this press was answered by the canister's Unauthorized trap:
\* the caller holds no role, and an answer that was not a network error was
\* handled before or is handled on this step
RejectedUnauthorized ==
    /\ identity \notin userRoles
    /\ (~h.allNet \/ h'.outcome = "auth")

\* C28: when a write of complete() was rejected as Unauthorized, the
\* handler ends with the authentication error (not the network or the
\* location error, popup left open) and the press has neither extended the
\* localStorage entry nor marked it unsynced.
C28_UnauthorizedNotQueued ==
    [][(CompleteFails /\ RejectedUnauthorized) =>
          /\ h'.outcome = "auth"
          /\ ~h.marked
          /\ localStorage' = localStorage]_vars

(***************************************************************************)
(* Two identities on one browser.  Only ActorPrincipal completes           *)
(* locations; the other identity signs in and fetches.  A session ends by  *)
(* handleLogout or is lost (the page is closed or reloaded and the         *)
(* identity is gone): the memory of the page is lost, localStorage stays.  *)
(***************************************************************************)

MaxSessions == 2

InitIdentity ==
    /\ userProgress = EmptyMap
    /\ storyLocations = initializeLocations(EmptyMap)
    /\ userRoles = Users
    /\ lastOp = Op("init", "A", 0, Ok(initialProgress, EmptyMap))
    /\ ClientInit

\* the session is lost without handleLogout
SessionLost ==
    /\ identity # ""
    /\ h.pc = "idle"
    /\ hist.logouts < MaxSessions
    /\ identity' = ""
    /\ queryData' = None
    /\ q' = QIdle
    /\ hist' = [hist EXCEPT !.logouts = @ + 1]
    /\ UNCHANGED <<serverVars, lastOp, localStorage, h>>

\* handleLogout while no fetch is running
QuietLogout == q.pc = "idle" /\ Logout

\* an identity signs in; the effect on [identity] fetches the progress
SignIn ==
    /\ identity = ""
    /\ q.pc = "idle"
    /\ \E u \in Users : identity' = u
    /\ q' = fetchStart(localStorage, hist)
    /\ hist' = taken(hist, q')
    /\ UNCHANGED <<serverVars, lastOp, localStorage, queryData, h>>

SignedInFetch == identity # "" /\ StartFetch

NextIdentity ==
    \/ SessionLost
    \/ QuietLogout
    \/ SignIn
    \/ SignedInFetch
    \/ LoggedInPress
    \/ ServerProcessQ
    \/ QSyncRead
    \/ QSyncWrite
    \/ QRead
    \/ RetryAfterBackoff
    \/ ServerProcessH
    \/ HWriteOk
    \/ HConfirm
    \/ HWriteRetry
    \/ HMutationFailed
    \/ HCompleteFailed

SpecIdentity == InitIdentity /\ [][NextIdentity]_vars

\* C29: no location is ever written into the server record of an identity
\* that has completed none: what identity A cached is never replayed into
\* the record of identity B.
C29_NoReplayAcrossIdentities ==
    \A u \in DOMAIN userProgress :
        u # ActorPrincipal => userProgress[u].completedLocations = <<>>

\* the step on which handleComplete starts and mutationFn issues the first
\* actor.updateProgress of the press
FirstWriteIssued == h.pc = "idle" /\ h'.pc = "write" /\ h'.writes = 1

\* C30: when the first server write of complete() is issued, a location
\* that was not in the localStorage entry's completedLocations has been
\* written to it, with the stage flags derived from the new count and
\* synced = false; for a location already in it localStorage is unchanged.
C30_OptimisticWrittenFirst ==
    [][FirstWriteIssued =>
          LET n == locationNumber(h'.locationId)
          IN  IF includes(CachedLocations(localStorage), n)
              THEN localStorage' = localStorage
              ELSE /\ includes(CachedLocations(localStorage'), n)
                   /\ hasUnsyncedProgress(localStorage')
                   /\ localStorage'["userProgress"].mainProgress
                         = MainProgress(Len(CachedLocations(localStorage')) >= 1,
                                        Len(CachedLocations(localStorage')) >= 2,
                                        Len(CachedLocations(localStorage')) >= 3)]_vars

(***************************************************************************)
(* The quest popup.  handleComplete calls onClose() in three places: with  *)
(* no locationId, after a successful save, and after the "saved locally"   *)
(* error; the outcome "viewed" stands for the first.                       *)
(***************************************************************************)

\* variant: onClose() is called whatever the outcome
closesAlways(outcome) == TRUE

\* the branches of handleComplete that call onClose()
closesPopup(outcome) == outcome \in {"viewed", "confirmed", "queued"}

\* handleComplete with no locationId: toast.info, onClose(), return
DoneWithoutLocation ==
    /\ h.pc = "idle"
    /\ hist.presses = 0
    /\ h' = [HIdle EXCEPT !.outcome = "viewed"]
    /\ hist' = [hist EXCEPT !.presses = @ + 1]
    /\ UNCHANGED <<serverVars, lastOp, identity, localStorage, queryData, q>>

NextPopup ==
    \/ DoneWithoutLocation
    \/ StartFetch
    \/ FirstPress
    \/ ServerProcessQ
    \/ QSyncRead
    \/ QSyncWrite
    \/ QRead
    \/ RetryAfterBackoff
    \/ ServerProcessH
    \/ HWriteOk
    \/ HConfirm
    \/ HWriteRetry
    \/ HMutationFailed
    \/ HCompleteFailed

SpecPopup == Init /\ [][NextPopup]_vars

\* the step on which handleComplete returns
HandlerReturns == h' # h /\ h'.pc = "idle"

MAX_RETRIES == 3

\* losses of the identity in one run
MaxAuthLosses == 1

ProfileData == {"undefined", "null", "profile"}

\* isFetched: !!actor && query.isFetched
profileFetched(a) == a.auth /\ a.fetched

\* isLoading: query.isLoading, a first fetch with no data yet
profileLoading(a) == a.fetching /\ a.data = "undefined"

\* the values the dependency arrays of the four effects hold in a render
Deps(a) ==
    [isAuthenticated |-> a.auth, profileFetched |-> profileFetched(a),
     userProfile |-> a.data, useGuestMode |-> a.useGuestMode,
     retryCount |-> a.retryCount, showTimeoutError |-> a.showTimeoutError,
     profileIsError |-> a.isError, profileError |-> a.errSeq]

\* an effect runs after the first render and after a render in which one
\* of its dependencies differs from the render before
Changed(a, fields) ==
    a.seen = None \/ \E f \in fields : a.seen[1][f] # Deps(a)[f]

EffectsPending(a) == a.seen # Some(Deps(a))

\* the render branches of App, in their order
screen(a) ==
    IF ~a.auth THEN "login"
    ELSE IF a.showTimeoutError /\ ~a.useGuestMode THEN "error"
    ELSE IF (profileLoading(a) \/ ~profileFetched(a))
            /\ ~a.showTimeoutError /\ ~a.useGuestMode /\ ~a.retrying
    THEN "loading"
    ELSE IF a.showProfileSetup /\ ~a.useGuestMode THEN "setup"
    ELSE "home"

\* "Reset states when authentication changes"; c is the render the effect
\* closed over, a the state with the updates queued so far
resetEffect(c, a) ==
    IF Changed(c, {"isAuthenticated"}) /\ ~c.auth
    THEN [a EXCEPT !.showProfileSetup = FALSE, !.showTimeoutError = FALSE,
                   !.retrying = FALSE, !.retryCount = 0,
                   !.useGuestMode = FALSE, !.timeoutReached = FALSE]
    ELSE a

\* "Determine if we should show profile setup"
setupEffect(c, a) ==
    IF ~Changed(c, {"isAuthenticated", "profileFetched", "userProfile", "useGuestMode"})
    THEN a
    ELSE IF ~c.auth \/ c.useGuestMode
    THEN [a EXCEPT !.showProfileSetup = FALSE]
    ELSE IF profileFetched(c) /\ c.data = "null"
    THEN [a EXCEPT !.showProfileSetup = TRUE, !.showTimeoutError = FALSE]
    ELSE IF c.data # "null"
    THEN [a EXCEPT !.showProfileSetup = FALSE, !.showTimeoutError = FALSE]
    ELSE a

\* variant: no timeout is ever armed
timeoutEffectOff(c, a) == [a EXCEPT !.timer = FALSE]

\* "Timeout mechanism": the cleanup clears the timeout, the effect arms a
\* new one unless it returns early
timeoutEffect(c, a) ==
    IF ~Changed(c, {"isAuthenticated", "profileFetched", "retryCount",
                    "useGuestMode", "showTimeoutError"})
    THEN a
    ELSE [a EXCEPT !.timer = ~(~c.auth \/ c.useGuestMode \/ profileFetched(c)
                               \/ c.showTimeoutError)]

\* "Handle errors from React Query"
errorEffect(c, a) ==
    IF Changed(c, {"profileIsError", "profileError", "showTimeoutError"})
       /\ c.isError /\ ~c.showTimeoutError
    THEN [a EXCEPT !.showTimeoutError = TRUE]
    ELSE a

\* the effects of one render, in the order of their declaration
runEffects(a) ==
    [errorEffect(a, timeoutEffect(a, setupEffect(a, resetEffect(a, a))))
        EXCEPT !.seen = Some(Deps(a))]

\* the query starts a fetch; with no data it goes back to pending and the
\* error is dropped
startFetch(a) ==
    [a EXCEPT !.fetching = TRUE,
              !.isError = IF a.data = "undefined" THEN FALSE ELSE @]

AppUnmounted ==
    [auth |-> FALSE, fetching |-> FALSE, fetched |-> FALSE, data |-> "undefined",
     isError |-> FALSE, errSeq |-> 0, losses |-> 0,
     showProfileSetup |-> FALSE, showTimeoutError |-> FALSE, retrying |-> FALSE,
     retryCount |-> 0, useGuestMode |-> FALSE, timeoutReached |-> FALSE,
     timer |-> FALSE, retryAwait |-> "none", seen |-> None]

InitApp ==
    /\ userProgress = EmptyMap
    /\ storyLocations = EmptyMap
    /\ userRoles = {}
    /\ lastOp = Op("init", "A", 0, Ok(initialProgress, EmptyMap))
    /\ identity = ""
    /\ localStorage = EmptyMap
    /\ queryData = None
    /\ q = QIdle
    /\ hist = [queued |-> {}, phase |-> "none", loc |-> 0, presses |-> 0, fetches |-> 0,
               reads |-> 0, once |-> None, logouts |-> 0,
               parked |-> None]
    /\ h = AppUnmounted

AppStep(next) ==
    /\ h' = next
    /\ UNCHANGED <<serverVars, lastOp, identity, localStorage, queryData, q, hist>>

\* the effects of the render run
RunEffects ==
    /\ EffectsPending(h)
    /\ AppStep(runEffects(h))

\* the identity arrives (login): the query is enabled and fetches
AppLogin ==
    /\ ~EffectsPending(h)
    /\ ~h.auth
    /\ AppStep(startFetch([h EXCEPT !.auth = TRUE]))

\* handleLogout: queryClient.clear() drops the profile query and any fetch
\* of it, clear() drops the identity
AuthLost ==
    /\ ~EffectsPending(h)
    /\ h.auth
    /\ h.losses < MaxAuthLosses
    /\ AppStep([h EXCEPT !.auth = FALSE, !.fetching = FALSE, !.losses = @ + 1,
                         !.fetched = FALSE, !.data = "undefined", !.isError = FALSE,
                         !.retryAwait = "none"])

\* the fetch resolves with the profile or with null; an awaited
\* refetchProfile() of handleRetry resolves with it
ProfileFetchSucceeds ==
    /\ ~EffectsPending(h)
    /\ h.fetching
    /\ \E d \in {"null", "profile"} :
          AppStep([h EXCEPT !.fetching = FALSE, !.fetched = TRUE, !.data = d,
                            !.isError = FALSE,
                            !.retryAwait = IF @ = "awaiting" THEN "settle" ELSE @])

\* the fetch fails after its retries
ProfileFetchFails ==
    /\ ~EffectsPending(h)
    /\ h.fetching
    /\ AppStep([h EXCEPT !.fetching = FALSE, !.fetched = TRUE, !.isError = TRUE,
                         !.errSeq = @ + 1,
                         !.retryAwait = IF @ = "awaiting" THEN "settle" ELSE @])

\* the timeout callback, PROFILE_LOAD_TIMEOUT after the effect armed it
Timeout ==
    /\ ~EffectsPending(h)
    /\ h.timer
    /\ IF profileFetched(h)
       THEN AppStep([h EXCEPT !.timer = FALSE])
       ELSE IF h.retryCount = 0
       THEN AppStep(startFetch([h EXCEPT !.timer = FALSE, !.timeoutReached = TRUE,
                                         !.retryCount = 1]))
       ELSE AppStep([h EXCEPT !.timer = FALSE, !.timeoutReached = TRUE,
                              !.showTimeoutError = TRUE])

\* variant: the retry button is always rendered
canRetryAlways(a) == TRUE

\* const canRetry = retryCount < MAX_RETRIES
canRetry(a) == a.retryCount < MAX_RETRIES

\* handleRetry, up to "await refetchProfile()": the button is rendered on
\* the error screen while canRetry and is disabled while retrying
HandleRetry ==
    /\ ~EffectsPending(h)
    /\ screen(h) = "error"
    /\ canRetry(h)
    /\ ~h.retrying
    /\ AppStep(startFetch([h EXCEPT !.retrying = TRUE, !.showTimeoutError = FALSE,
                                    !.timeoutReached = FALSE, !.retryCount = @ + 1,
                                    !.retryAwait = "awaiting"]))

\* handleRetry, 500 ms after refetchProfile() resolved: setRetrying(false)
RetrySettled ==
    /\ ~EffectsPending(h)
    /\ h.retryAwait = "settle"
    /\ AppStep([h EXCEPT !.retrying = FALSE, !.retryAwait = "none"])

\* handleGuestMode, the other button of the error screen
HandleGuestMode ==
    /\ ~EffectsPending(h)
    /\ screen(h) = "error"
    /\ AppStep([h EXCEPT !.useGuestMode = TRUE, !.showTimeoutError = FALSE,
                         !.showProfileSetup = FALSE, !.timeoutReached = FALSE])

\* ProfileSetupPage saved the profile: onSuccess sets the query data and
\* onComplete hides the setup page
ProfileSetupComplete ==
    /\ ~EffectsPending(h)
    /\ screen(h) = "setup"
    /\ AppStep([h EXCEPT !.data = "profile", !.fetched = TRUE, !.isError = FALSE,
                         !.showProfileSetup = FALSE])

NextApp ==
    \/ RunEffects
    \/ AppLogin
    \/ AuthLost
    \/ ProfileFetchSucceeds
    \/ ProfileFetchFails
    \/ Timeout
    \/ HandleRetry
    \/ RetrySettled
    \/ HandleGuestMode
    \/ ProfileSetupComplete

SpecApp == InitApp /\ [][NextApp]_vars

\* the effects of a render run after it, an armed timeout fires, and the
\* 500 ms timer of handleRetry fires; whether a fetch ever ends is up to
\* the network
SpecAppLive ==
    /\ InitApp
    /\ [][NextApp]_vars
    /\ WF_vars(RunEffects)
    /\ WF_vars(Timeout)
    /\ WF_vars(RetrySettled)

\* the timeout callback runs (the effects leave h.seen as it is only here)
TimeoutFires == h.timer /\ ~h'.timer /\ h'.seen = h.seen

QueryFnReturns ==
    /\ q.pc = "read"
    /\ q'.pc = "idle" \/ (q.again # "no" /\ q'.again = "no")

\* the three outcomes of queryFn for the cache ls and the answer resp
ServerRecordCached(ls, resp, r) ==
    /\ r.data = resp.result
    /\ loadProgressFromLocalStorage(r.ls) = Some(resp.result)
    /\ r.ls["userProgress"].synced

CacheReturnedUnsynced(ls, r) ==
    /\ Some(r.data) = loadProgressFromLocalStorage(ls)
    /\ r.ls = [ls EXCEPT !["userProgress"].synced = FALSE]

DefaultReturned(ls, r) ==
    /\ r.data.completedLocations = <<>>
    /\ r.data.currentSequences = <<>>
    /\ r.data.lastCompletedLocation = 0
    /\ r.data.totalLocations = 3
    /\ r.data.mainProgress = [stage1 |-> FALSE, stage2 |-> FALSE, stage3 |-> FALSE]
    /\ r.ls = ls

FetchOutcome(ls, resp, r) ==
    IF resp.err = "" THEN ServerRecordCached(ls, resp, r)
    ELSE IF "userProgress" \in DOMAIN ls THEN CacheReturnedUnsynced(ls, r)
    ELSE DefaultReturned(ls, r)

C34_RecordWellFormed ==
    \A u \in DOMAIN userProgress :
        LET p == userProgress[u]
            c == p.completedLocations
        IN  /\ \A i, j \in 1 .. Len(c) : c[i] = c[j] => i = j
            /\ \A i \in 1 .. Len(c) : 1 <= c[i] /\ c[i] <= p.totalLocations
            /\ p.totalLocations = 3
            /\ Len(c) <= p.totalLocations

\* a record holds both locations and a further write of one of them was
\* answered with the early return
C34_Witness ==
    /\ lastOp.op = "updateProgress"
    /\ lastOp.dup
    /\ \E u \in DOMAIN userProgress :
          /\ u = lastOp.caller
          /\ userProgress[u].completedLocations = <<2, 1>>
          /\ storyLocations[lastOp.arg] = 2

\* C35: in every server record lastCompletedLocation is 0 when
\* completedLocations is empty and its last element otherwise, and a write
\* of a location the record already holds leaves it as it was.
C35_LastCompleted ==
    /\ [](\A u \in DOMAIN userProgress :
            LET p == userProgress[u]
                c == p.completedLocations
            IN  p.lastCompletedLocation = IF c = <<>> THEN 0 ELSE c[Len(c)])
    /\ [][\A u \in DOMAIN userProgress :
            (/\ lastOp'.op = "updateProgress"
             /\ lastOp'.caller = u
             /\ lastOp'.arg \in DOMAIN storyLocations
             /\ \E i \in 1 .. Len(userProgress[u].completedLocations) :
                   userProgress[u].completedLocations[i] = storyLocations[lastOp'.arg])
            => /\ u \in DOMAIN userProgress'
               /\ userProgress'[u].lastCompletedLocation
                     = userProgress[u].lastCompletedLocation]_vars

\* location_1 was written again after location_2: the record still names
\* location_2 as the last one
C35_Witness ==
    /\ lastOp.op = "updateProgress"
    /\ lastOp.err = ""
    /\ lastOp.arg \in DOMAIN storyLocations
    /\ storyLocations[lastOp.arg] = 1
    /\ lastOp.caller \in DOMAIN userProgress
    /\ userProgress[lastOp.caller].completedLocations = <<1, 2>>
    /\ userProgress[lastOp.caller].lastCompletedLocation = 2

\* C36: a write that fails because the caller lacks the user permission or
\* because the location id is unknown changes nothing in the progress store:
\* no record is created and none is modified.
C36_FailedWriteNoChange ==
    [][(/\ lastOp'.op = "updateProgress"
        /\ \/ lastOp'.caller \notin userRoles
           \/ lastOp'.arg \notin DOMAIN storyLocations)
       => /\ lastOp'.err \in {"Unauthorized", "Invalid location ID: Location not found"}
          /\ userProgress' = userProgress]_vars

\* a caller that holds the permission but has no record yet wrote an
\* unknown location id while another user's record exists: still no record
C36_Witness ==
    /\ lastOp.op = "updateProgress"
    /\ lastOp.err = "Invalid location ID: Location not found"
    /\ lastOp.caller \in userRoles
    /\ lastOp.caller \notin DOMAIN userProgress
    /\ DOMAIN userProgress # {}
    /\ DOMAIN storyLocations # {}


(***************************************************************************)
(* App: what the profile gate lets through                                 *)
(***************************************************************************)

\* C37: once the effects of a render have run, the main game screen is shown
\* only to an authenticated user whose profile was fetched and is not null,
\* or who chose guest mode; so not while a manual retry is in flight with no
\* profile fetched.
C37_HomeOnlyWithProfileOrGuest ==
    (screen(h) = "home" /\ ~EffectsPending(h)) =>
        /\ h.auth
        /\ h.useGuestMode \/ (profileFetched(h) /\ h.data = "profile")


\* a press of the retry button: handleRetry sets retrying
RetryPressed == ~h.retrying /\ h'.retrying

\* C38: the profile retry counter never exceeds MAX_RETRIES.  The timeout
\* raises it only from 0 (to 1), the retry button raises it by one and only
\* while it is below MAX_RETRIES, and once the effects of a render without
\* authentication have run the counter is 0 and guest mode, the error flags
\* and the setup flag are off.
C38_RetryCounterBounded ==
    /\ [](h.retryCount <= MAX_RETRIES)
    /\ []((~h.auth /\ ~EffectsPending(h)) =>
            /\ h.retryCount = 0
            /\ ~h.useGuestMode
            /\ ~h.showTimeoutError
            /\ ~h.timeoutReached
            /\ ~h.retrying
            /\ ~h.showProfileSetup)
    /\ [][(TimeoutFires /\ h'.retryCount # h.retryCount) =>
             (h.retryCount = 0 /\ h'.retryCount = 1)]_vars
    /\ [][RetryPressed =>
             (h.retryCount < MAX_RETRIES /\ h'.retryCount = h.retryCount + 1)]_vars
    /\ [][(h'.retryCount > h.retryCount) => (TimeoutFires \/ RetryPressed)]_vars

\* the error screen after the third retry: the button is no longer offered
C38_Witness ==
    /\ screen(h) = "error"
    /\ h.retryCount = MAX_RETRIES
    /\ ~h.retrying
    /\ ~EffectsPending(h)
    /\ ~canRetry(h)


(***************************************************************************)
(* ScannerView: the effect over qrResults and handleQRScanned.  The model  *)
(* keeps in h the results the scanner hook has delivered (latest first),   *)
(* isProcessing, the processedQRs ref, the position of the running         *)
(* handleQRScanned, the stories cached under 'story_<payload>', and as     *)
(* history how often each payload was handled, which handlings ended with  *)
(* an error toast, and which payloads were scanned again after that.       *)
(***************************************************************************)

MaxScans == 3

\* a location code, a code that only resembles one, and a story code
Payloads == {"location_1", "location-2", "story_7"}

\* normalizedData === LOCATION_n_QR_ID || normalizedData.includes('location_n')
isLocationQR(qrData) == qrData = "location_1"

\* fetchStoryWithRetry: normalizedData.includes('location') and a digit 1 or 2
matchesKnownLocation(qrData) == qrData \in {"location_1", "location-2"}

\* fetchStoryWithRetry: const maxAttempts = 3
maxAttempts == 3

ScannerMounted ==
    [qrResults |-> <<>>, isProcessing |-> FALSE, processedQRs |-> {},
     effectDue |-> FALSE, pc |-> "idle", qrData |-> "", attempt |-> 0,
     cached |-> {},
     handled |-> [d \in Payloads |-> 0], failed |-> {}, rescanned |-> {}]

InitScanner ==
    /\ userProgress = EmptyMap
    /\ storyLocations = EmptyMap
    /\ userRoles = {}
    /\ lastOp = Op("init", "A", 0, Ok(initialProgress, EmptyMap))
    /\ identity = "A"
    /\ localStorage = EmptyMap
    /\ queryData = None
    /\ q = QIdle
    /\ hist = [queued |-> {}, phase |-> "none", loc |-> 0, presses |-> 0, fetches |-> 0,
               reads |-> 0, once |-> None, logouts |-> 0,
               parked |-> None]
    /\ h = ScannerMounted

ScannerStep(next) ==
    /\ h' = next
    /\ UNCHANGED <<serverVars, lastOp, identity, localStorage, queryData, q, hist>>

\* processedQRs.current.has(latestResult.data)
hasProcessed(processedQRs, data) == data \in processedQRs

\* handleQRScanned up to its first await: setIsProcessing(true), then the
\* location branch, the offline cache branch (which returns at once, so
\* that finally sets isProcessing back in the same batch), or the fetch
handleQRScanned(s, qrData) ==
    LET t == [s EXCEPT !.handled[qrData] = @ + 1]
    IN  IF isLocationQR(qrData)
        THEN [t EXCEPT !.isProcessing = TRUE, !.effectDue = TRUE,
                       !.pc = "location", !.qrData = qrData]
        ELSE IF qrData \in s.cached
        THEN t
        ELSE [t EXCEPT !.isProcessing = TRUE, !.effectDue = TRUE,
                       !.pc = "fetch", !.qrData = qrData, !.attempt = 1]

\* the effect over [qrResults, isProcessing]
scanEffect(s) ==
    LET seen == [s EXCEPT !.effectDue = FALSE]
    IN  IF Len(s.qrResults) > 0 /\ ~s.isProcessing
        THEN LET latestResult == s.qrResults[1]
             IN  IF ~hasProcessed(s.processedQRs, latestResult)
                 THEN handleQRScanned(
                          [seen EXCEPT !.processedQRs = @ \cup {latestResult}],
                          latestResult)
                 ELSE seen
        ELSE seen

\* "finally { setIsProcessing(false) }"
finished(s) ==
    [s EXCEPT !.isProcessing = FALSE, !.effectDue = TRUE, !.pc = "idle",
              !.qrData = "", !.attempt = 0]

\* the handling ended with an error toast
finishedFailed(s) == [finished(s) EXCEPT !.failed = @ \cup {s.qrData}]

\* the scanner hook delivers a result: qrResults changes
QRDetected ==
    /\ ~h.effectDue
    /\ Len(h.qrResults) < MaxScans
    /\ \E data \in Payloads :
          ScannerStep([h EXCEPT !.qrResults = <<data>> \o @,
                                !.effectDue = TRUE,
                                !.rescanned = IF data \in h.failed
                                              THEN @ \cup {data} ELSE @])

\* the effect runs after the render
ScanEffect ==
    /\ h.effectDue
    /\ ScannerStep(scanEffect(h))

\* handleLocationScan ends: the quest popup is shown, with the fetched or
\* with the fallback data, and the story is cached when it was fetched
LocationScanEnds ==
    /\ ~h.effectDue
    /\ h.pc = "location"
    /\ \E fetched \in BOOLEAN :
          ScannerStep([finished(h) EXCEPT
                          !.cached = IF fetched THEN @ \cup {h.qrData} ELSE @])

\* fetchStoryWithRetry: getStoryLocation returned the story
StoryFound ==
    /\ ~h.effectDue
    /\ h.pc = "fetch"
    /\ ScannerStep([finished(h) EXCEPT !.cached = @ \cup {h.qrData}])

\* fetchStoryWithRetry: getStoryLocation returned null
StoryNotFound ==
    /\ ~h.effectDue
    /\ h.pc = "fetch"
    /\ IF matchesKnownLocation(h.qrData)
       THEN ScannerStep(finished(h))
       ELSE IF h.attempt >= maxAttempts
       THEN ScannerStep(finishedFailed(h))
       ELSE ScannerStep([h EXCEPT !.attempt = @ + 1])

\* fetchStoryWithRetry: getStoryLocation threw
StoryFetchThrows ==
    /\ ~h.effectDue
    /\ h.pc = "fetch"
    /\ IF h.attempt < maxAttempts
       THEN ScannerStep([h EXCEPT !.attempt = @ + 1])
       ELSE ScannerStep(finishedFailed(h))

NextScanner ==
    \/ QRDetected
    \/ ScanEffect
    \/ LocationScanEnds
    \/ StoryFound
    \/ StoryNotFound
    \/ StoryFetchThrows

SpecScanner == InitScanner /\ [][NextScanner]_vars

\* C39: within one scanner session a payload is handled again only after
\* its handling failed, a handling starts only while no other is running,
\* and a payload whose handling failed and that was scanned again is
\* handled again once the scanner is idle.
C39_ScanOncePerPayload ==
    /\ [](\A d \in Payloads :
            /\ h.handled[d] <= 1 \/ d \in h.failed
            /\ (/\ d \in h.rescanned
                /\ Len(h.qrResults) > 0
                /\ h.qrResults[1] = d
                /\ ~h.effectDue
                /\ ~h.isProcessing)
               => h.handled[d] >= 2)
    /\ [][(\E d \in Payloads : h'.handled[d] > h.handled[d])
             => (~h.isProcessing /\ h.pc = "idle")]_vars

====
